---- MODULE Spec2Model ----
(***************************************************************************)
(* Model of GovernmentServicesStore                                        *)
(* (src/src/stores/government_services_store/government_services_store.py) *)
(* and of the loader script load_services_simple.py.                       *)
(*                                                                         *)
(* Text is a sequence of one-character strings, so that lower-casing,      *)
(* substring counting, URI parsing and markup stripping are computed.      *)
(* The snapshot file, the detail file and the persisted vector index are   *)
(* part of the state: they outlive the store object.                       *)
(*                                                                         *)
(* A handler is an operator from the state record at its start to the      *)
(* state record at its end.  A value a handler uses more than once is      *)
(* passed on as an operator argument rather than named in a LET, so that   *)
(* TLC computes it once whether or not it collects coverage.               *)
(***************************************************************************)
EXTENDS Integers, Sequences, FiniteSets, TLC

\* ------------------------------------------------------------------------
\* Bounds of the model
\* ------------------------------------------------------------------------

\* batch_size of _compute_embeddings (500 in the source), scaled down so
\* that a catalog of a few records spans several batches.
BatchSize == 2

\* ------------------------------------------------------------------------
\* Text helpers (Python str operations used by the store)
\* ------------------------------------------------------------------------

NoText == << >>

RECURSIVE IndexOf(_, _, _)
\* first position >= from of character c in s, 0 when absent (str.find + 1)
IndexOf(s, c, from) ==
    IF from > Len(s) THEN 0
    ELSE IF s[from] = c THEN from
    ELSE IndexOf(s, c, from + 1)

\* s[a..b] as Python slices do: empty when the range is empty
Slice(s, a, b) == IF a > b THEN NoText ELSE SubSeq(s, a, b)

RECURSIVE SplitOn(_, _)
\* str.split(c) when the first c of s is at position i (0: there is none)
SplitAt(s, c, i) ==
    IF i = 0 THEN << s >>
    ELSE << Slice(s, 1, i - 1) >> \o SplitOn(Slice(s, i + 1, Len(s)), c)

\* str.split(c): the pieces between occurrences of c, empty pieces included
SplitOn(s, c) == SplitAt(s, c, IndexOf(s, c, 1))

RECURSIVE JoinWith(_, _)
\* sep.join(parts)
JoinWith(parts, sep) ==
    IF parts = << >> THEN NoText
    ELSE IF Len(parts) = 1 THEN parts[1]
    ELSE parts[1] \o sep \o JoinWith(Tail(parts), sep)

StartsWith(s, p) == Len(s) >= Len(p) /\ SubSeq(s, 1, Len(p)) = p

IsSpace(c) == c = " "

RECURSIVE LStrip(_)
LStrip(s) == IF s # NoText /\ IsSpace(Head(s)) THEN LStrip(Tail(s)) ELSE s

RECURSIVE RStrip(_)
RStrip(s) ==
    IF s # NoText /\ IsSpace(s[Len(s)]) THEN RStrip(SubSeq(s, 1, Len(s) - 1)) ELSE s

\* str.strip()
Strip(s) == LStrip(RStrip(s))

\* str.lower() on the model's alphabet
LowerChar(c) ==
    CASE c = "A" -> "a"
      [] c = "B" -> "b"
      [] c = "C" -> "c"
      [] c = "D" -> "d"
      [] c = "I" -> "i"
      [] c = "M" -> "m"
      [] c = "N" -> "n"
      [] c = "P" -> "p"
      [] c = "T" -> "t"
      [] c = "X" -> "x"
      [] OTHER -> c

Lower(s) == [i \in 1..Len(s) |-> LowerChar(s[i])]

RECURSIVE StripTagsFrom(_, _)
\* re.sub(r'<[^>]+>', '', text), scanning from position i: a '<' followed by
\* at least one non-'>' character and then '>' is removed with its content
StripTagsFrom(s, i) ==
    IF i > Len(s) THEN NoText
    ELSE IF s[i] = "<"
        THEN LET j == IndexOf(s, ">", i + 1)
             IN  IF j > i + 1
                 THEN StripTagsFrom(s, j + 1)
                 ELSE << s[i] >> \o StripTagsFrom(s, i + 1)
        ELSE << s[i] >> \o StripTagsFrom(s, i + 1)

\* GovernmentServicesStore._remove_html_tags and the inline re.sub of the merge
RemoveHtmlTags(text) == IF text = NoText THEN text ELSE StripTagsFrom(text, 1)

\* ------------------------------------------------------------------------
\* Record model: GovernmentService and its __post_init__
\* ------------------------------------------------------------------------

SchemeChars == {"h", "t", "p", "s", "g", "a", "b", "x"}

\* urllib.parse.urlparse restricted to scheme, netloc, path and fragment
\* the path of what follows '//netloc', n the position of its first '/'
PathFrom(afterSl, n) ==
    IF n = 0 THEN NoText ELSE Slice(afterSl, n, Len(afterSl))

\* the path of a URL without scheme and fragment
NetlocPath(rest) ==
    IF StartsWith(rest, << "/", "/" >>)
    THEN PathFrom(Slice(rest, 3, Len(rest)),
                  IndexOf(Slice(rest, 3, Len(rest)), "/", 1))
    ELSE rest

\* the URL without its scheme, c the position of its first ':'
SchemeEnd(url, c) ==
    IF c > 1 /\ \A i \in 1..(c - 1) : url[i] \in SchemeChars
    THEN Slice(url, c + 1, Len(url))
    ELSE url

UrlPath(url) == NetlocPath(SchemeEnd(url, IndexOf(url, ":", 1)))

\* h is the position of the first '#'
UrlParseAt(uri, h) ==
    [path |-> UrlPath(IF h = 0 THEN uri ELSE Slice(uri, 1, h - 1)),
     fragment |-> IF h = 0 THEN NoText ELSE Slice(uri, h + 1, Len(uri))]

UrlParse(uri) == UrlParseAt(uri, IndexOf(uri, "#", 1))

\* [part for part in parsed.path.split('/') if part]
PathParts(path) == SelectSeq(SplitOn(path, "/"), LAMBDA part : part # NoText)

\* the id __post_init__ settles on; NoText when none can be determined
\* path_parts[-1] when there are path parts
LastPart(parts) == IF parts # << >> THEN parts[Len(parts)] ELSE NoText

IdFromParsedMutPathFirst(parsed) ==
    IF parsed.path # NoText /\ PathParts(parsed.path) # << >>
    THEN LastPart(PathParts(parsed.path))
    ELSE parsed.fragment

IdFromParsed(parsed) ==
    IF parsed.fragment # NoText THEN parsed.fragment
    ELSE IF parsed.path # NoText THEN LastPart(PathParts(parsed.path))
    ELSE NoText

DerivedId(uri, id) ==
    IF id # NoText THEN id
    ELSE IF uri = NoText THEN NoText
    ELSE IdFromParsed(UrlParse(uri))

\* GovernmentService(...) raises ValueError exactly when this is FALSE
CanConstruct(uri, id) == DerivedId(uri, id) # NoText

\* the constructed object
GovernmentService(uri, id, name, description, keywords) ==
    [uri |-> uri, id |-> DerivedId(uri, id), name |-> name,
     description |-> description, keywords |-> keywords]

\* GovernmentService(uri, id, ...) as a call: it returns the object or
\* raises ValueError
Construct(m, uri, id) ==
    IF CanConstruct(uri, id) THEN m ELSE [m EXCEPT !.exc = "ValueError"]

\* ------------------------------------------------------------------------
\* The store's state, threaded through the handlers as one record
\* ------------------------------------------------------------------------

\* an empty dict / an empty persisted collection
EmptyMap == << >>

Ids(recs) == {recs[i].id : i \in 1..Len(recs)}

IdSeq(recs) == [i \in 1..Len(recs) |-> recs[i].id]

\* self._services[service.id] = service, on a dict kept in insertion order:
\* an existing key keeps its position, a new key goes last
DictPutMutMoveToEnd(d, service) ==
    Append(SelectSeq(d, LAMBDA r : r.id # service.id), service)

DictPut(d, service) ==
    IF \E i \in 1..Len(d) : d[i].id = service.id
    THEN [i \in 1..Len(d) |-> IF d[i].id = service.id THEN service ELSE d[i]]
    ELSE Append(d, service)

RECURSIVE DictPutAll(_, _)
\* for service in services: self._services[service.id] = service
DictPutAll(d, recs) ==
    IF recs = << >> THEN d ELSE DictPutAll(DictPut(d, Head(recs)), Tail(recs))

\* where a catalog record came from (history, not program state)
TagAll(origin, recs, tag) ==
    [i \in DOMAIN origin \cup Ids(recs) |->
        IF i \in Ids(recs) THEN tag ELSE origin[i]]

\* GovernmentServicesStore.__init__ next to whatever is on disk
Fresh(m) ==
    [m EXCEPT !.services = << >>, !.services_list = << >>,
              !.embeddings_computed = FALSE, !.openai_client = FALSE,
              !.collection = FALSE, !.origin = EmptyMap]

\* add_service
\* the catalog becomes d after recs were put into it
WithCatalog(m, d, recs, tag) ==
    [m EXCEPT !.services = d, !.services_list = d,
              !.origin = TagAll(m.origin, recs, tag)]

AddService(m, service, tag) ==
    WithCatalog(m, DictPut(m.services, service), << service >>, tag)

\* add_services
AddServices(m, recs, tag) ==
    WithCatalog(m, DictPutAll(m.services, recs), recs, tag)

\* if loaded_services: self.add_services(loaded_services)
AddLoaded(m, loaded, tag) ==
    IF loaded # << >> THEN AddServices(m, loaded, tag) ELSE m

\* get_service_by_id: self._services.get(service_id); << >> stands for None
GetServiceById(m, id) ==
    SelectSeq(m.services, LAMBDA r : r.id = id)

\* get_services_count and __len__: len(self._services)
GetServicesCount(m) == Len(m.services)

StoreLen(m) == Len(m.services)

\* __contains__: service_id in self._services
Contains(m, id) == id \in Ids(m.services)

\* get_all_services returns a list object: its items, and whether it is the
\* object the store itself holds as self._services_list
GetAllServicesMutReturnsOwnList(m) == [items |-> m.services_list, own |-> TRUE]

GetAllServices(m) == [items |-> m.services_list, own |-> FALSE]

\* a caller appends to a list it got from the store
CallerAppends(m, list, service) ==
    IF list.own THEN [m EXCEPT !.services_list = Append(@, service)] ELSE m

\* clear(): the catalog and the computed flag are reset; the vectors are
\* deleted only through an initialised collection handle, and a failure of
\* that deletion is logged and swallowed
Clear(m, env) ==
    LET m1 == [m EXCEPT !.services = << >>, !.services_list = << >>,
                        !.embeddings_computed = FALSE, !.origin = EmptyMap]
    IN  IF m.collection /\ ~env.clearFails
        THEN [m1 EXCEPT !.index = EmptyMap,
                        !.deleted = m.deleted \cup DOMAIN m.index]
        ELSE m1

\* ------------------------------------------------------------------------
\* Snapshot store
\* ------------------------------------------------------------------------

RequiredFields == {"uri", "id", "name", "description"}

\* the per-entry body of _load_from_local's loop: TRUE when the entry becomes
\* a record, FALSE when it is skipped (missing field or ValueError)
EntryLoads(e) ==
    /\ RequiredFields \subseteq DOMAIN e
    /\ CanConstruct(e.uri, e.id)

EntryRecordMutNoKeywords(e) ==
    GovernmentService(e.uri, e.id, e.name, e.description, << >>)

EntryRecord(e) ==
    GovernmentService(e.uri, e.id, e.name, e.description,
                      IF "keywords" \in DOMAIN e THEN e.keywords ELSE << >>)

RECURSIVE LoadedFromEntries(_)
LoadedFromEntries(entries) ==
    IF entries = << >> THEN << >>
    ELSE (IF EntryLoads(Head(entries)) THEN << EntryRecord(Head(entries)) >> ELSE << >>)
         \o LoadedFromEntries(Tail(entries))

\* _load_from_local; m.exc is the exception it raises, "none" on return
LoadFromLocalMutFailsOnBadEntry(m, env) ==
    IF m.snapshot.kind = "absent"
    THEN [m EXCEPT !.localCalls = m.localCalls + 1, !.exc = "FileNotFoundError"]
    ELSE IF \/ m.snapshot.kind # "array"
            \/ \E i \in 1..Len(m.snapshot.entries) : ~EntryLoads(m.snapshot.entries[i])
    THEN [Clear([m EXCEPT !.localCalls = m.localCalls + 1], env) EXCEPT
             !.exc = "RuntimeError"]
    ELSE AddLoaded(Clear([m EXCEPT !.localCalls = m.localCalls + 1], env),
                   LoadedFromEntries(m.snapshot.entries), "local")

LoadFromLocal(m, env) ==
    LET m0 == [m EXCEPT !.localCalls = m.localCalls + 1]
    IN  IF m.snapshot.kind = "absent"
        THEN [m0 EXCEPT !.exc = "FileNotFoundError"]
        ELSE IF m.snapshot.kind # "array"
        THEN [Clear(m0, env) EXCEPT !.exc = "RuntimeError"]
        ELSE AddLoaded(Clear(m0, env), LoadedFromEntries(m.snapshot.entries),
                       "local")

\* the dict written for one record by _store_to_local
ServiceDictMutNoDescription(service) ==
    [uri |-> service.uri, id |-> service.id, name |-> service.name,
     keywords |-> service.keywords]

ServiceDict(service) ==
    [uri |-> service.uri, id |-> service.id, name |-> service.name,
     description |-> service.description, keywords |-> service.keywords]

\* the file json.dump writes for a catalog
SnapshotOf(list) ==
    [kind |-> "array",
     entries |-> [i \in 1..Len(list) |-> ServiceDict(list[i])]]

\* _store_to_local: env.write is "ok", "failBefore" (the directory or the
\* file cannot be opened) or "failMid" (the dump stops after open('w')
\* truncated the file)
StoreToLocal(m, env) ==
    CASE env.write = "ok" -> [m EXCEPT !.snapshot = SnapshotOf(m.services_list)]
      [] env.write = "failBefore" -> [m EXCEPT !.exc = "RuntimeError"]
      [] OTHER ->
            [m EXCEPT !.exc = "RuntimeError",
                      !.snapshot = [kind |-> "garbage", entries |-> << >>]]

\* ------------------------------------------------------------------------
\* Remote catalog source and auxiliary detail
\* ------------------------------------------------------------------------

\* the per-row body of _load_from_external_store's loop: rows without uri or
\* name are skipped, and so are rows whose construction raises ValueError
RowLoads(row) ==
    /\ row.uri # NoText
    /\ row.name # NoText
    /\ CanConstruct(row.uri, NoText)

RECURSIVE LoadedFromRows(_)
LoadedFromRows(rows) ==
    IF rows = << >> THEN << >>
    ELSE (IF RowLoads(Head(rows))
          THEN << GovernmentService(Head(rows).uri, NoText, Head(rows).name,
                                    Head(rows).description, << >>) >>
          ELSE << >>)
         \o LoadedFromRows(Tail(rows))

\* for the record: the identifiers the catalog holds after the rows were added
WithFetched(m) == [m EXCEPT !.fetched = IdSeq(m.services_list)]

\* _load_from_external_store; env.remote is the endpoint's answer

AddLoadedMutRaiseOnEmpty(m, loaded) ==
    IF loaded # << >>
    THEN [AddServices(m, loaded, "remote") EXCEPT
             !.fetched = IdSeq(DictPutAll(<< >>, loaded))]
    ELSE [m EXCEPT !.exc = "RuntimeError"]

LoadFromExternalStoreMutRaiseOnEmpty(m, env) ==
    IF env.remote.kind = "fail"
    THEN [Clear([m EXCEPT !.remoteCalls = m.remoteCalls + 1], env) EXCEPT
             !.exc = "RuntimeError", !.remoteExc = "RuntimeError"]
    ELSE AddLoadedMutRaiseOnEmpty(
            [Clear([m EXCEPT !.remoteCalls = m.remoteCalls + 1], env) EXCEPT
                !.remoteRows = Len(env.remote.rows)],
            LoadedFromRows(env.remote.rows))

LoadFromExternalStore(m, env) ==
    IF env.remote.kind = "fail"
    THEN [Clear([m EXCEPT !.remoteCalls = m.remoteCalls + 1], env) EXCEPT
             !.exc = "RuntimeError", !.remoteExc = "RuntimeError"]
    ELSE WithFetched(AddLoaded(
            [Clear([m EXCEPT !.remoteCalls = m.remoteCalls + 1], env) EXCEPT
                !.remoteRows = Len(env.remote.rows)],
            LoadedFromRows(env.remote.rows), "remote"))

\* details_map = {item['kód']: item for item in položky if 'kód' in item}:
\* the last item with a given code wins
DetailFor(items, id) ==
    LET hits == {i \in 1..Len(items) : "kod" \in DOMAIN items[i] /\ items[i].kod = id}
    IN  IF hits = {} THEN [none |-> TRUE]
        ELSE items[CHOOSE i \in hits : \A j \in hits : j <= i]

RECURSIVE AppendKeywords(_, _)
\* the loop over details['klíčová-slova']; an entry that is not a container
\* makes  'cs' in keyword_item  raise, which ends the whole merge
AppendKeywords(service, kws) ==
    IF kws = << >> THEN [service |-> service, raised |-> FALSE]
    ELSE LET k == Head(kws)
         IN  IF "raises" \in DOMAIN k
             THEN [service |-> service, raised |-> TRUE]
             ELSE IF "cs" \in DOMAIN k /\ k.cs # NoText
                  THEN AppendKeywords(
                          [service EXCEPT !.keywords = Append(@, k.cs)], Tail(kws))
                  ELSE AppendKeywords(service, Tail(kws))

MergeOneMutReplacesDescription(service, items) ==
    LET details == DetailFor(items, service.id)
    IN  IF "none" \in DOMAIN details
        THEN [service |-> service, raised |-> FALSE]
        ELSE LET s1 == IF "popis" \in DOMAIN details /\ details.popis # NoText
                       THEN [service EXCEPT !.description =
                                StripTagsFrom(details.popis, 1)]
                       ELSE service
             IN  IF "kw" \in DOMAIN details
                 THEN AppendKeywords(s1, details.kw)
                 ELSE [service |-> s1, raised |-> FALSE]

\* the body of the merge loop for one service
MergeOne(service, items) ==
    LET details == DetailFor(items, service.id)
    IN  IF "none" \in DOMAIN details
        THEN [service |-> service, raised |-> FALSE]
        ELSE LET s1 == IF "popis" \in DOMAIN details /\ details.popis # NoText
                       THEN [service EXCEPT !.description =
                                @ \o << " " >> \o StripTagsFrom(details.popis, 1)]
                       ELSE service
             IN  IF "kw" \in DOMAIN details
                 THEN AppendKeywords(s1, details.kw)
                 ELSE [service |-> s1, raised |-> FALSE]

RECURSIVE MergeAll(_, _)
\* r is what the loop body made of the first record
MergeRest(r, rest, items) ==
    IF r.raised THEN << r.service >> \o rest
    ELSE << r.service >> \o MergeAll(rest, items)

\* for service in self._services_list: ... ; stops at the first exception,
\* keeping what was appended so far
MergeAll(list, items) ==
    IF list = << >> THEN << >>
    ELSE MergeRest(MergeOne(Head(list), items), Tail(list), items)

\* _load_auxiliary_details: never raises; the records are mutated in place,
\* so the dict and the list both see the change
\* the record with this id in the merged list
ById(merged, id) == merged[CHOOSE i \in 1..Len(merged) : merged[i].id = id]

WithMerged(m, merged) ==
    [m EXCEPT !.services_list = merged,
              !.services = [i \in 1..Len(m.services) |->
                   IF m.services[i].id \in Ids(merged)
                   THEN ById(merged, m.services[i].id) ELSE m.services[i]],
              !.merges = m.merges + 1]

LoadAuxiliaryDetails(m) ==
    IF m.details.kind # "ok" THEN [m EXCEPT !.merges = m.merges + 1]
    ELSE WithMerged(m, MergeAll(m.services_list, m.details.items))

\* "Není k dispozici", the text safe_get_cs returns for a missing field
NotAvailable ==
    << "N", "e", "n", "i", " ", "k", " ", "d", "i", "s", "p", "o", "z", "i", "c", "i" >>

\* safe_get_cs(key): the field without its markup when the entry has a
\* non-empty localized value under key
SafeGetCs(item, key) ==
    IF key \in DOMAIN item /\ item[key] # NoText
    THEN RemoveHtmlTags(item[key])
    ELSE NotAvailable

\* one line of the output, f"{label}: {text}"
OutputPart(label, text) == [label |-> label, text |-> text]

\* the electronic and the in-person line: the two fields joined by a space
\* and stripped; no line at all when both fields are missing
HandlingParts(label, where, how) ==
    IF where # NotAvailable \/ how # NotAvailable
    THEN IF Strip(where \o << " " >> \o how) # NotAvailable \o << " " >> \o NotAvailable
         THEN << OutputPart(label, Strip(where \o << " " >> \o how)) >>
         ELSE << >>
    ELSE << >>

\* output_parts for one entry of the detail file, in the order of the join
DetailOutput(item) ==
    << OutputPart("Prinos", SafeGetCs(item, "benefit")),
       OutputPart("Caste dotazy", SafeGetCs(item, "faq")),
       OutputPart("Pro koho je sluzba urcena", SafeGetCs(item, "target")) >>
    \o HandlingParts("Kde a jak sluzbu resit elektronicky",
                      SafeGetCs(item, "elWhere"), SafeGetCs(item, "elHow"))
    \o HandlingParts("Kde a jak sluzbu resit osobne",
                      SafeGetCs(item, "osWhere"), SafeGetCs(item, "osHow"))
    \o << OutputPart("Kdy sluzbu resit", SafeGetCs(item, "when")),
          OutputPart("Co je vystupem nebo vysledkem sluzby", SafeGetCs(item, "output")) >>

\* for item in položky: if item.get("kód") == service_id: the first entry
\* with the code
EntriesFor(items, id) ==
    {i \in 1..Len(items) : "kod" \in DOMAIN items[i] /\ items[i].kod = id}

\* get_service_detail_by_id: None without a readable detail file or without
\* an entry for the id, else the lines of the formatted detail
GetServiceDetailById(m, id) ==
    IF m.details.kind # "ok" \/ EntriesFor(m.details.items, id) = {}
    THEN [id |-> id, found |-> FALSE, parts |-> << >>]
    ELSE [id |-> id, found |-> TRUE,
          parts |-> DetailOutput(m.details.items[
              CHOOSE i \in EntriesFor(m.details.items, id) :
                  \A j \in EntriesFor(m.details.items, id) : i <= j])]

\* ------------------------------------------------------------------------
\* Semantic index
\* ------------------------------------------------------------------------

\* _initialize_semantic_search; env.init is "ok", "noKey" (OPENAI_API_KEY is
\* not set) or "chromaFails" (the client is built, the collection is not)
InitializeSemanticSearch(m, env) ==
    CASE env.init = "noKey" ->
            [m EXCEPT !.exc = "RuntimeError", !.inits = m.inits + 1]
      [] env.init = "chromaFails" ->
            [m EXCEPT !.openai_client = TRUE, !.exc = "RuntimeError",
                      !.inits = m.inits + 1]
      [] OTHER -> [m EXCEPT !.openai_client = TRUE, !.collection = TRUE,
                            !.inits = m.inits + 1]

\* _get_service_text_for_embedding
ServiceTextForEmbedding(service) ==
    Strip(service.name \o << " " >> \o service.description \o << " " >>
          \o JoinWith(service.keywords, << " " >>))

Min(a, b) == IF a < b THEN a ELSE b

\* services_to_embed[i:i + batch_size] for the b-th batch (b from 1)
BatchOf(toEmbed, b) ==
    Slice(toEmbed, (b - 1) * BatchSize + 1, Min(b * BatchSize, Len(toEmbed)))

\* collection.add of one batch: the identifiers that are new get their
\* document, an identifier the collection already holds keeps what it has
CollectionAdd(index, batch) ==
    [i \in DOMAIN index \cup Ids(batch) |->
        IF i \in DOMAIN index THEN index[i]
        ELSE ServiceTextForEmbedding(
                batch[CHOOSE k \in 1..Len(batch) : batch[k].id = i])]

\* what a build did, in the order it did it: embeddings.create for batch b
\* was called, collection.add of batch b returned
Requested(b) == [kind |-> "request", batch |-> b]
Written(b) == [kind |-> "write", batch |-> b]

RECURSIVE ProcessBatches(_, _, _, _)
\* the batch loop of _compute_embeddings from batch b on.  env.failAt = b
\* makes the embedding request or the collection.add of batch b raise;
\* env.idx = "getFailsDupRaises" is a collection that rejects an add of an
\* identifier it already holds
ProcessBatchesMutWritesBeforeFailing(m, env, toEmbed, b) ==
    IF (b - 1) * BatchSize >= Len(toEmbed)
    THEN [m EXCEPT !.embeddings_computed = TRUE, !.flagged = TRUE]
    ELSE IF \/ env.failAt = b
            \/ /\ env.idx = "getFailsDupRaises"
               /\ Ids(BatchOf(toEmbed, b)) \cap DOMAIN m.index # {}
    THEN [m EXCEPT !.requests = Append(@, IdSeq(BatchOf(toEmbed, b))),
                   !.events = Append(@, Requested(b)),
                   !.index = CollectionAdd(m.index, << Head(BatchOf(toEmbed, b)) >>),
                   !.exc = "RuntimeError"]
    ELSE ProcessBatches(
            [m EXCEPT !.requests = Append(@, IdSeq(BatchOf(toEmbed, b))),
                      !.events = @ \o << Requested(b), Written(b) >>,
                      !.index = CollectionAdd(m.index, BatchOf(toEmbed, b)),
                      !.writes = Append(@, IdSeq(BatchOf(toEmbed, b)))],
            env, toEmbed, b + 1)

\* the request for batch b + 1 goes out before batch b is written
ProcessBatchesMutRequestsAhead(m, env, toEmbed, b) ==
    IF (b - 1) * BatchSize >= Len(toEmbed)
    THEN [m EXCEPT !.embeddings_computed = TRUE, !.flagged = TRUE]
    ELSE IF \/ env.failAt = b
            \/ /\ env.idx = "getFailsDupRaises"
               /\ Ids(BatchOf(toEmbed, b)) \cap DOMAIN m.index # {}
    THEN [m EXCEPT !.requests = Append(@, IdSeq(BatchOf(toEmbed, b))),
                   !.events = Append(@, Requested(b)),
                   !.exc = "RuntimeError"]
    ELSE ProcessBatches(
            [m EXCEPT !.requests = Append(@, IdSeq(BatchOf(toEmbed, b))),
                      !.events = @ \o << Requested(b), Requested(b + 1), Written(b) >>,
                      !.index = CollectionAdd(m.index, BatchOf(toEmbed, b)),
                      !.writes = Append(@, IdSeq(BatchOf(toEmbed, b)))],
            env, toEmbed, b + 1)

ProcessBatches(m, env, toEmbed, b) ==
    IF (b - 1) * BatchSize >= Len(toEmbed)
    THEN [m EXCEPT !.embeddings_computed = TRUE, !.flagged = TRUE]
    ELSE LET batch == BatchOf(toEmbed, b)
             m1 == [m EXCEPT !.requests = Append(@, IdSeq(batch)),
                             !.events = Append(@, Requested(b))]
         IN  IF \/ env.failAt = b
                \/ /\ env.idx = "getFailsDupRaises"
                   /\ Ids(batch) \cap DOMAIN m.index # {}
             THEN [m1 EXCEPT !.exc = "RuntimeError"]
             ELSE ProcessBatches(
                     [m1 EXCEPT !.index = CollectionAdd(m.index, batch),
                                !.writes = Append(@, IdSeq(batch)),
                                !.events = Append(@, Written(b))],
                     env, toEmbed, b + 1)

\* existing_ids of _compute_embeddings: a failing collection.get() is
\* swallowed and leaves the empty set
ExistingIds(m, env) ==
    IF env.idx = "ok" THEN DOMAIN m.index ELSE {}

\* _compute_embeddings.  For the record: the identifiers the collection
\* held when the build started, and the records the build set out to embed.
\* services_to_embed
ServicesToEmbed(list, existing) ==
    SelectSeq(list, LAMBDA service : service.id \notin existing)

\* _compute_embeddings once the records to embed are known
EmbedAll(m, env, toEmbed) ==
    IF toEmbed = << >>
    THEN [m EXCEPT !.embeddings_computed = TRUE, !.flagged = TRUE]
    ELSE ProcessBatches([m EXCEPT !.toEmbed = IdSeq(toEmbed)], env, toEmbed, 1)

\* _compute_embeddings after the semantic components were initialised, or
\* failed to be
BuildInitialised(m, env) ==
    IF m.exc # "none" THEN m
    ELSE EmbedAll(m, env, ServicesToEmbed(m.services_list, ExistingIds(m, env)))

ComputeEmbeddings(m, env) ==
    LET m0 == [m EXCEPT !.builds = m.builds + 1, !.indexAtBuild = DOMAIN m.index,
                        !.toEmbed = << >>, !.flagged = FALSE]
    IN  IF m.services_list = << >> THEN m0
        ELSE IF ~m.openai_client \/ ~m.collection
        THEN BuildInitialised(InitializeSemanticSearch(m0, env), env)
        ELSE BuildInitialised(m0, env)

\* get_embedding_statistics: the state it leaves (it may initialise the
\* semantic components) ...
StatisticsState(m, env) ==
    IF ~m.collection THEN [InitializeSemanticSearch(m, env) EXCEPT !.exc = "none"]
    ELSE m

\* ... and the dictionary it returns; the coverage is in hundredths of a
\* percent, round(x, 2) taken to the nearest hundredth
StatisticsOf(m, total_embeddings, total_services) ==
    IF ~m.collection
    THEN [embeddings_computed |-> FALSE, total_embeddings |-> 0,
          total_services |-> total_services, coverage_percentage |-> 0]
    ELSE [embeddings_computed |-> m.embeddings_computed,
          total_embeddings |-> total_embeddings,
          total_services |-> total_services,
          coverage_percentage |->
              IF total_services > 0
              THEN (total_embeddings * 20000 + total_services)
                      \div (2 * total_services)
              ELSE 0]

EmbeddingStatistics(m, env) ==
    StatisticsOf(StatisticsState(m, env),
                 Cardinality(DOMAIN StatisticsState(m, env).index),
                 Len(m.services_list))

\* the identifiers the collection returns for a query: its n nearest
\* vectors, nearest first; env.rank is the order the similarity metric gives
\* the identifiers
NearestIds(index, rank, n) ==
    Slice(SelectSeq(rank, LAMBDA id : id \in DOMAIN index), 1, n)

\* get_service_by_id for each returned identifier: those the catalog does
\* not hold are passed over
MatchingServicesMutKeepAll(services, ids) == ids

MatchingServices(services, ids) ==
    SelectSeq(ids, LAMBDA id : id \in Ids(services))

\* the lines after collection.query returned ids
SearchResults(m, ids) ==
    [m EXCEPT !.nearest = ids, !.returned = MatchingServices(m.services, ids)]

\* collection.query(n_results = n): the collection refuses a number of
\* results that is not positive, which the except clause turns into a
\* RuntimeError
QueryCollection(m, env, n) ==
    IF n <= 0
    THEN [m EXCEPT !.queried = TRUE, !.indexAtQuery = DOMAIN m.index,
                   !.exc = "RuntimeError"]
    ELSE SearchResults([m EXCEPT !.queried = TRUE,
                                 !.indexAtQuery = DOMAIN m.index],
                       NearestIds(m.index, env.rank, n))

\* the try block of search_services_semantically: the query text is
\* embedded (env.query = "embedFails": the request raises), then the
\* collection is queried for min(k, count()) results
QueryIndex(m, env, k) ==
    IF env.query = "embedFails"
    THEN [m EXCEPT !.queryRequests = m.queryRequests + 1,
                   !.exc = "RuntimeError"]
    ELSE QueryCollection([m EXCEPT !.queryRequests = m.queryRequests + 1],
                         env, Min(k, Cardinality(DOMAIN m.index)))

\* search_services_semantically once the build it may need has run; an
\* exception of the build leaves the call
SearchBuilt(m, env, k) ==
    IF m.exc # "none" THEN m ELSE QueryIndex(m, env, k)

\* the test that guards the build in search_services_semantically
NeedsBuildMutEmptyOnly(m) == DOMAIN m.index = {}

NeedsBuild(m) == ~m.embeddings_computed \/ DOMAIN m.index = {}

\* search_services_semantically once the components are initialised; an
\* exception of the initialisation leaves the call
SearchInitialised(m, env, k) ==
    IF m.exc # "none" THEN m
    ELSE IF NeedsBuild(m) THEN SearchBuilt(ComputeEmbeddings(m, env), env, k)
    ELSE SearchBuilt(m, env, k)

\* the test for a blank query
IsBlankMutEmptyOnly(text) == text = NoText

IsBlank(text) == Strip(text) = NoText

\* search_services_semantically
SearchServicesSemantically(m, env, text, k) ==
    IF IsBlank(text) THEN m
    ELSE IF ~m.openai_client \/ ~m.collection
    THEN SearchInitialised(InitializeSemanticSearch(m, env), env, k)
    ELSE SearchInitialised(m, env, k)

\* ------------------------------------------------------------------------
\* Catalog loader
\* ------------------------------------------------------------------------

\* Step 1 of load_services: clear the existing services, if any
LoadStep1MutNoClear(m, env) == m

LoadStep1(m, env) ==
    IF Len(m.services) > 0 THEN Clear(m, env) ELSE m

\* Step 2 of load_services: the local file, when it exists; a failure is
\* logged and whatever was loaded is cleared
\* r is the state _load_from_local left
AfterLocalLoad(r, env) ==
    IF r.exc # "none"
    THEN [Clear(r, env) EXCEPT !.exc = "none", !.localExc = r.exc]
    ELSE r

LoadStep2(m, env) ==
    IF m.snapshot.kind # "absent" THEN AfterLocalLoad(LoadFromLocal(m, env), env)
    ELSE m

\* the test that guards step 3 of load_services
NeedsExternalMutFileAbsent(m) == m.snapshot.kind = "absent"

NeedsExternal(m) == Len(m.services) = 0

\* c is the state _compute_embeddings left: its failure is logged and not
\* raised
AfterEmbeddingsMutBuildRaises(c) ==
    IF c.exc # "none"
    THEN [c EXCEPT !.exc = "RuntimeError", !.cause = "embedding",
                   !.buildExc = c.exc]
    ELSE c

AfterEmbeddings(c) ==
    IF c.exc # "none" THEN [c EXCEPT !.exc = "none", !.buildExc = c.exc] ELSE c

\* e is the state _load_from_external_store left
AfterExternalLoadMutSwallowsRemote(e, env) ==
    IF e.exc # "none" THEN [e EXCEPT !.exc = "none"]
    ELSE AfterEmbeddings(ComputeEmbeddings(LoadAuxiliaryDetails(e), env))

AfterExternalLoad(e, env) ==
    IF e.exc # "none" THEN [e EXCEPT !.exc = "RuntimeError", !.cause = "external"]
    ELSE AfterEmbeddings(ComputeEmbeddings(LoadAuxiliaryDetails(e), env))


\* Step 3 of load_services: the external store, the auxiliary details and
\* the embeddings
LoadStep3(m, env) ==
    IF NeedsExternal(m) THEN AfterExternalLoad(LoadFromExternalStore(m, env), env)
    ELSE m

\* load_services: an exception of a step ends the call
AfterStep2(m, env) == IF m.exc # "none" THEN m ELSE LoadStep3(m, env)

LoadServices(m, env) == AfterStep2(LoadStep2(LoadStep1(m, env), env), env)

\* load_services reaches g.query of _load_from_external_store (line 278)
\* when steps 1 and 2 left the catalog empty ...
ReachesRemoteQuery(m, env) == NeedsExternal(LoadStep2(LoadStep1(m, env), env))

\* ... and the state in which it calls it: after the clear() of line 275
BeforeRemoteQuery(m, env) == Clear(LoadStep2(LoadStep1(m, env), env), env)

RECURSIVE StepTexts(_)
\* the list get_service_steps_by_id builds from the rows of its query:
\* 'name: description', the name alone without a description, nothing
\* without a name
StepTexts(rows) ==
    IF rows = << >> THEN << >>
    ELSE (IF Head(rows).name = NoText THEN << >>
          ELSE IF Head(rows).description # NoText
          THEN << Head(rows).name \o << ":", " " >> \o Head(rows).description >>
          ELSE << Head(rows).name >>)
         \o StepTexts(Tail(rows))

\* get_service_steps_by_id once g.query has answered: a failure of the
\* query is raised as RuntimeError
GetServiceSteps(m, env) ==
    IF env.remote.kind = "fail" THEN [m EXCEPT !.exc = "RuntimeError"] ELSE m

\* main() of load_services_simple.py: a new store, load_services, and the
\* snapshot written when the file is not there; then the embedding status is
\* read.  Its semantic test query runs only on a built index and changes
\* nothing.  An exception ends the script.
ScriptAfterStore(st, env) ==
    IF st.exc # "none" THEN st ELSE StatisticsState(st, env)

ScriptAfterLoad(l, env) ==
    IF l.exc # "none" \/ Len(l.services) = 0 THEN l
    ELSE IF l.snapshot.kind = "absent"
    THEN ScriptAfterStore(StoreToLocal(l, env), env)
    ELSE ScriptAfterStore(l, env)

LoaderScript(m, env) == ScriptAfterLoad(LoadServices(Fresh(m), env), env)

\* ------------------------------------------------------------------------
\* Keyword search
\* ------------------------------------------------------------------------

\* the characters of the model in code-point order
Alphabet ==
    << " ", "#", "/", "1", "2", "3", "4", "5", "7", "9", ":", "<", ">",
       "A", "B", "C", "D", "I", "M", "N", "P", "T", "X",
       "a", "b", "c", "d", "e", "g", "h", "i", "k", "l", "m", "n", "o", "p",
       "r", "s", "t", "u", "v", "x", "y" >>

CharCode(c) == IndexOf(Alphabet, c, 1)

RECURSIVE TextLess(_, _)
\* a < b on Python strings
TextLess(a, b) ==
    IF b = NoText THEN FALSE
    ELSE IF a = NoText THEN TRUE
    ELSE IF Head(a) = Head(b) THEN TextLess(Tail(a), Tail(b))
    ELSE CharCode(Head(a)) < CharCode(Head(b))

RECURSIVE CountFrom(_, _, _)
\* len(pattern.findall(text)) from position i: non-overlapping occurrences,
\* leftmost first
CountFrom(text, pat, i) ==
    IF i + Len(pat) - 1 > Len(text) THEN 0
    ELSE IF SubSeq(text, i, i + Len(pat) - 1) = pat
         THEN 1 + CountFrom(text, pat, i + Len(pat))
         ELSE CountFrom(text, pat, i + 1)

\* [keyword.lower().strip() for keyword in keywords if keyword.strip()]
NormalizeAllMutKeepCase(kept) == [i \in 1..Len(kept) |-> Strip(kept[i])]

NormalizeAll(kept) == [i \in 1..Len(kept) |-> Strip(Lower(kept[i]))]

NormalizedKeywords(keywords) ==
    NormalizeAll(SelectSeq(keywords, LAMBDA kw : Strip(kw) # NoText))

SearchableText(service) ==
    Lower(service.name \o << " " >> \o service.description \o << " " >>
          \o JoinWith(service.keywords, << " " >>))

RECURSIVE KeywordCount(_, _)
KeywordCount(service, normalized) ==
    IF normalized = << >> THEN 0
    ELSE CountFrom(SearchableText(service), Head(normalized), 1)
         + KeywordCount(service, Tail(normalized))

\* the sort key (-count, name.lower()) compared as tuples
ScoreBeforeMutRawName(x, y) ==
    \/ x.count > y.count
    \/ x.count = y.count /\ TextLess(x.service.name, y.service.name)

ScoreBefore(x, y) ==
    \/ x.count > y.count
    \/ x.count = y.count /\ TextLess(Lower(x.service.name), Lower(y.service.name))

RECURSIVE InsertScored(_, _)
\* x goes after every element that does not come after it (list.sort is stable)
InsertScored(sorted, x) ==
    IF sorted = << >> THEN << x >>
    ELSE IF ScoreBefore(x, Head(sorted)) THEN << x >> \o sorted
    ELSE << Head(sorted) >> \o InsertScored(Tail(sorted), x)

RECURSIVE SortScored(_, _)
SortScored(scored, acc) ==
    IF scored = << >> THEN acc
    ELSE SortScored(Tail(scored), InsertScored(acc, Head(scored)))

\* search_services_by_keywords
\* service_scores before the sort: the services with a positive count
ServiceScores(list, normalized) ==
    SelectSeq([i \in 1..Len(list) |->
                  [service |-> list[i],
                   count |-> KeywordCount(list[i], normalized)]],
              LAMBDA x : x.count > 0)

\* ranked[:k]
FirstK(ranked, k) ==
    Slice(ranked, 1, Min(IF k < 0 THEN Len(ranked) + k ELSE k, Len(ranked)))

ServicesOf(top) == [i \in 1..Len(top) |-> top[i].service]

SearchNormalizedMutBlankReturnsAll(list, normalized, k) ==
    IF normalized = << >> THEN list
    ELSE ServicesOf(FirstK(SortScored(ServiceScores(list, normalized), << >>), k))

SearchNormalized(list, normalized, k) ==
    IF normalized = << >> THEN << >>
    ELSE ServicesOf(FirstK(SortScored(ServiceScores(list, normalized), << >>), k))

SearchServicesByKeywords(list, keywords, k) ==
    IF keywords = << >> THEN << >>
    ELSE SearchNormalized(list, NormalizedKeywords(keywords), k)

\* ------------------------------------------------------------------------
\* The inputs the environment can supply
\* ------------------------------------------------------------------------

\* rows the graph endpoint can answer with: (uri, name, description)
Row1 ==
    [uri |-> << "h", ":", "/", "/", "g", "/", "s", "1" >>,
     name |-> << "T", "a", "x" >>,
     description |-> << "p", "a", "y", " ", "t", "a", "x" >>]
Row2 ==
    [uri |-> << "h", ":", "/", "/", "g", "/", "x", "#", "s", "2" >>,
     name |-> << "I", "D" >>,
     description |-> << "i", "d", " ", "c", "a", "r", "d" >>]
Row3 ==
    [uri |-> << "h", ":", "/", "/", "g", "/", "s", "3", "/" >>,
     name |-> << "P", "a", "s", "s" >>,
     description |-> NoText]
Row4 ==
    [uri |-> << "h", ":", "/", "/", "g", "/", "s", "4" >>,
     name |-> << "B", "i", "d" >>,
     description |-> << "t", "a", "x", " ", "b", "i", "d" >>]
Row5 ==
    [uri |-> << "h", ":", "/", "/", "g", "/", "s", "5" >>,
     name |-> << "t", "a", "b" >>,
     description |-> << "a", " ", "t", "a", "b" >>]
\* the same identifier as Row1 under another path
Row1Again ==
    [uri |-> << "h", ":", "/", "/", "g", "/", "y", "/", "s", "1" >>,
     name |-> << "T", "a", "x", "2" >>,
     description |-> << "v", "a", "t" >>]
\* a row without a name, and a row whose uri gives no identifier
RowNoName ==
    [uri |-> << "h", ":", "/", "/", "g", "/", "s", "9" >>,
     name |-> NoText,
     description |-> << "l", "o", "s", "t" >>]
RowNoId ==
    [uri |-> << "h", ":", "/", "/", "g" >>,
     name |-> << "D", "u", "d" >>,
     description |-> << "n", "o", " ", "i", "d" >>]

RemoteFails == [kind |-> "fail", rows |-> << >>]
NoRows == [kind |-> "ok", rows |-> << >>]
NoValidRows == [kind |-> "ok", rows |-> << RowNoName, RowNoId >>]
ThreeRows == [kind |-> "ok", rows |-> << Row2, Row1, Row1Again >>]
SevenRows ==
    [kind |-> "ok",
     rows |-> << Row1, Row2, RowNoName, Row3, RowNoId, Row4, Row5 >>]

RemoteAnswers == { RemoteFails, NoRows, NoValidRows, ThreeRows, SevenRows }

\* entries a snapshot file can hold
Entry1 ==
    [uri |-> << "h", ":", "/", "/", "g", "/", "s", "1" >>, id |-> << "s", "1" >>, name |-> << "T", "a", "x" >>,
     description |-> << "o", "l", "d", " ", "t", "a", "x" >>, keywords |-> << << "v", "a", "t" >> >>]
\* no id and no keywords key: the id comes from the uri
Entry2 ==
    [uri |-> << "h", ":", "/", "/", "g", "/", "c", "2" >>, id |-> NoText, name |-> << "C", "a", "b" >>,
     description |-> << "a", " ", "c", "a", "b" >>]
EntryNoDescription ==
    [uri |-> << "h", ":", "/", "/", "g", "/", "s", "7" >>, id |-> << "s", "7" >>, name |-> << "B", "a", "d" >>]
EntryNoId ==
    [uri |-> NoText, id |-> NoText, name |-> << "N", "i", "l" >>, description |-> NoText]

\* an entry whose name is the empty string
EntryEmptyName ==
    [uri |-> << "h", ":", "/", "/", "g", "/", "s", "8" >>, id |-> << "s", "8" >>, name |-> NoText,
     description |-> << "n", "o", " ", "n", "a", "m", "e" >>, keywords |-> << >>]

AbsentFile == [kind |-> "absent", entries |-> << >>]
GarbageFile == [kind |-> "garbage", entries |-> << >>]

\* a file that parses, to something that is no list
ScalarFile == [kind |-> "scalar", entries |-> << >>]

\* what the environment can put in place of the snapshot file
SnapshotFiles ==
    { AbsentFile, GarbageFile,
      ScalarFile,
      [kind |-> "array", entries |-> << >>],
      [kind |-> "array", entries |-> << EntryNoDescription, EntryNoId >>],
      [kind |-> "array", entries |-> << Entry1, EntryNoDescription, Entry2 >>] }

\* the same, and a file with an entry whose name is empty
LocalFiles ==
    SnapshotFiles
    \cup {[kind |-> "array", entries |-> << EntryEmptyName, Entry1 >>]}

\* items of the auxiliary detail file
Detail1 ==
    [kod |-> << "s", "1" >>, popis |-> << "<", "b", ">", "v", "a", "t", "<", "/", "b", ">", " ", "d", "u", "e" >>,
     kw |-> << [cs |-> << "t", "a", "x" >>], [en |-> << "t", "a", "x" >>], [cs |-> NoText] >>]
Detail3 ==
    [kod |-> << "s", "3" >>, kw |-> << [cs |-> << "i", "d" >>], [raises |-> TRUE] >>]
Detail3Clean ==
    [kod |-> << "s", "3" >>, kw |-> << [cs |-> << "i", "d" >>] >>]
Detail4 ==
    [kod |-> << "s", "4" >>, popis |-> << "l", "a", "t", "e" >>]
DetailNoCode ==
    [popis |-> << "x" >>]

NoDetailFile == [kind |-> "absent", items |-> << >>]
\* the merge stops at the entry of s3
DetailFileRaising ==
    [kind |-> "ok", items |-> << Detail1, DetailNoCode, Detail3, Detail4 >>]
DetailFileClean ==
    [kind |-> "ok", items |-> << Detail1, Detail3Clean, Detail4 >>]

\* an entry with every labelled field, and one with neither electronic field
\* and one of the two in-person fields
DetailLabelled ==
    [kod |-> << "s", "1" >>, popis |-> << "d", "u", "e" >>,
     benefit |-> << "<", "i", ">", "f", "a", "s", "t", "<", "/", "i", ">" >>,
     faq |-> << "w", "h", "y" >>, target |-> << "a", "l", "l" >>,
     elWhere |-> << "w", "e", "b" >>, elHow |-> << "f", "o", "r", "m" >>,
     osWhere |-> << "h", "a", "l", "l" >>, osHow |-> << "d", "e", "s", "k" >>,
     when |-> << "n", "o", "w" >>, output |-> << "c", "a", "r", "d" >>]
DetailPartial ==
    [kod |-> << "s", "3" >>, benefit |-> << "f", "r", "e", "e" >>,
     faq |-> NoText, osHow |-> << "d", "e", "s", "k" >>]
DetailFileLabelled ==
    [kind |-> "ok", items |-> << DetailNoCode, DetailLabelled, DetailPartial >>]

DetailFiles ==
    { NoDetailFile, [kind |-> "garbage", items |-> << >>],
      DetailFileRaising, DetailFileClean, DetailFileLabelled }

\* records a caller can add
Added1 ==
    GovernmentService(<< "u", ":", "/", "s", "1" >>, << "s", "1" >>, << "M", "i", "n", "e" >>, << "m", "y", " ", "t", "a", "x" >>, << >>)
Added2 ==
    GovernmentService(<< "h", ":", "/", "/", "g", "/", "u", "1" >>, NoText, << "A", "i", "d" >>, << "a", "i", "d" >>, << << "t", "a", "x" >> >>)

AddedServices == { Added1, Added2 }

\* a record with the id of the detail entry s3
Added3 ==
    GovernmentService(<< "u", ":", "/", "s", "3" >>, NoText, << "I", "d", "s" >>, NoText, << >>)

\* how far a repeated merge may grow a record
MaxKeywords == 2
MaxDescription == 8

\* keyword lists a caller can search for
KeywordLists == { << << "T", "A", "X" >> >>, << << " ", "i", "d", " " >>, << "a" >> >>, << << " " >> >> }

\* records for keyword search: equal counts under names whose order depends
\* on letter case, a keyword in the keywords field, a record without "tax"
Keyword1 ==
    GovernmentService(<< "u", ":", "/", "k", "1" >>, << "k", "1" >>,
        << "T", "a", "x" >>, << "p", "a", "y", " ", "t", "a", "x" >>,
        <<  >>)
Keyword2 ==
    GovernmentService(<< "u", ":", "/", "k", "2" >>, << "k", "2" >>,
        << "b", "i", "d" >>, << "T", "A", "X", " ", "b", "i", "d" >>,
        << << "t", "a", "x" >> >>)
Keyword3 ==
    GovernmentService(<< "u", ":", "/", "k", "3" >>, << "k", "3" >>,
        << "I", "D" >>, << "i", "d", " ", "c", "a", "r", "d" >>,
        <<  >>)
Keyword4 ==
    GovernmentService(<< "u", ":", "/", "k", "4" >>, << "k", "4" >>,
        << "A", "i", "d" >>, << "a", " ", "t", "a", "x" >>,
        <<  >>)

KeywordRecords == { Keyword1, Keyword2, Keyword3, Keyword4 }

\* keyword lists for keyword search: letter-case variants, blanks around a
\* keyword, only blanks, none
SearchKeywordLists ==
    { << << "T", "A", "X" >> >>,
      << << "t", "a", "x" >> >>,
      << << " ", "i", "d", " " >>, << "a" >> >>,
      << << " " >>, << " ", " " >> >>,
      <<  >>,
      << << "T", "a", "x" >>, << "B", "I", "D" >> >> }

\* values of k a caller can pass
SearchSizes == {-1, 0, 1, 2, 10}

\* query texts a caller can search for
QueryTexts == { << "t", "a", "x" >>, << " ", " " >>, NoText }

\* orders in which the similarity metric can rank the stored identifiers
SimilarityRanks ==
    { << << "s", "1" >>, << "s", "2" >>, << "u", "1" >> >>,
      << << "u", "1" >>, << "s", "2" >>, << "s", "1" >> >> }

\* URIs a caller can construct a record with, by their parts: a scheme or
\* none, an authority or none, path segments with or without a closing
\* slash, a '#' or none and the fragment behind it
UriForms ==
    {f \in [scheme : {NoText, << "h" >>}, host : {NoText, << "g" >>},
            segments : {<< >>, << << "a" >> >>, << << "a" >>, << "b" >> >>},
            slash : BOOLEAN, hash : BOOLEAN,
            fragment : {NoText, << "f" >>}] :
        /\ f.fragment # NoText => f.hash
        /\ f.host # NoText => f.scheme # NoText}

\* the URI string of these parts
UriText(f) ==
    (IF f.scheme # NoText THEN f.scheme \o << ":" >> ELSE NoText)
    \o (IF f.host # NoText THEN << "/", "/" >> \o f.host ELSE NoText)
    \o (IF f.segments # << >>
        THEN << "/" >> \o JoinWith(f.segments, << "/" >>) ELSE NoText)
    \o (IF f.slash THEN << "/" >> ELSE NoText)
    \o (IF f.hash THEN << "#" >> \o f.fragment ELSE NoText)

\* the id argument: empty or supplied
GivenIds == {NoText, << "i" >>}

\* records a caller adds to the catalog: 1 and 2 collide on the id 'a'
CatalogRecord(n) ==
    CASE n = 1 -> GovernmentService(<< "h", ":", "/", "/", "g", "/", "a" >>, NoText,
                                    << "O", "n", "e" >>, << "o", "n", "e" >>, << >>)
      [] n = 2 -> GovernmentService(<< "h", ":", "/", "/", "g", "/", "x", "#", "a" >>, NoText,
                                    << "U", "n", "o" >>, << "u", "n", "o" >>, << << "a" >> >>)
      [] n = 3 -> GovernmentService(<< "h", ":", "/", "/", "g", "/", "b", "/" >>, NoText,
                                    << "T", "w", "o" >>, NoText, << >>)
      [] OTHER -> GovernmentService(NoText, << "c" >>, << "T", "r", "i" >>, NoText, << >>)

CatalogRecords == {CatalogRecord(n) : n \in 1..4}

\* lists a caller passes to add_services, with ids repeated inside a list
CatalogLists ==
    { << CatalogRecord(1), CatalogRecord(3) >>,
      << CatalogRecord(4), CatalogRecord(2) >>,
      << CatalogRecord(3), CatalogRecord(1), CatalogRecord(2), CatalogRecord(3) >>,
      << >> }

\* the largest batch number at which a build can be made to fail
MaxBatch == 3

\* ------------------------------------------------------------------------
\* State
\* ------------------------------------------------------------------------

VARIABLES
    services,             \* self._services, in insertion order
    services_list,        \* self._services_list
    embeddings_computed,  \* self._embeddings_computed
    openai_client,        \* self._openai_client is set
    collection,           \* self._collection is set
    index,                \* the persisted collection: id -> stored document
    snapshot,             \* government_services_data.json
    details,              \* government_services_details.json
    origin,               \* history: id -> where the catalog record came from
    last,                 \* history: what the last call did
    waiting               \* the external call the running handler is blocked in

vars == << services, services_list, embeddings_computed, openai_client,
           collection, index, snapshot, details, origin, last, waiting >>

\* the inputs a call does not use
NoEnv ==
    [remote |-> RemoteFails, init |-> "ok", failAt |-> 0,
     idx |-> "ok", clearFails |-> FALSE, write |-> "ok",
     query |-> "ok", rank |-> << >>]

\* the state as the handlers see it at the start of a call
Cur ==
    [services |-> services, services_list |-> services_list,
     embeddings_computed |-> embeddings_computed,
     openai_client |-> openai_client, collection |-> collection,
     index |-> index, snapshot |-> snapshot, details |-> details,
     origin |-> origin,
     exc |-> "none", cause |-> "none", localExc |-> "none",
     remoteExc |-> "none", buildExc |-> "none", remoteRows |-> -1,
     fetched |-> << >>,
     localCalls |-> 0, remoteCalls |-> 0, builds |-> 0, merges |-> 0,
     requests |-> << >>, writes |-> << >>, deleted |-> {},
     indexAtBuild |-> {}, toEmbed |-> << >>, flagged |-> FALSE,
     inits |-> 0, queryRequests |-> 0, queried |-> FALSE,
     indexAtQuery |-> {}, nearest |-> << >>, returned |-> << >>,
     events |-> << >>]

\* no handler is blocked in an external call
NotWaiting == [at |-> "none", env |-> NoEnv]

\* a handler is blocked in g.query(sparql_str), which was called without a
\* timeout; env is what the handler has met so far
InQuery(env) == [at |-> "g.query", env |-> env]

\* the call op took the state to r; it returned result, or it is blocked in
\* the external call w
Settles(op, state, result, w) ==
    \E r \in {state} :
    /\ waiting' = w
    /\ services' = r.services
    /\ services_list' = r.services_list
    /\ embeddings_computed' = r.embeddings_computed
    /\ openai_client' = r.openai_client
    /\ collection' = r.collection
    /\ index' = r.index
    /\ snapshot' = r.snapshot
    /\ details' = r.details
    /\ origin' = r.origin
    /\ last' = [op |-> op, exc |-> r.exc, cause |-> r.cause,
                localExc |-> r.localExc, remoteExc |-> r.remoteExc,
                buildExc |-> r.buildExc, remoteRows |-> r.remoteRows,
                fetched |-> r.fetched,
                prevOp |-> last.op, prevExc |-> last.exc,
                hadRecords |-> services_list # << >>,
                wroteSnapshot |-> r.snapshot # snapshot,
                localCalls |-> r.localCalls, remoteCalls |-> r.remoteCalls,
                builds |-> r.builds, merges |-> r.merges,
                requests |-> r.requests, writes |-> r.writes,
                deleted |-> r.deleted, indexAtBuild |-> r.indexAtBuild,
                toEmbed |-> r.toEmbed, flagged |-> r.flagged,
                inits |-> r.inits, queryRequests |-> r.queryRequests,
                queried |-> r.queried, indexAtQuery |-> r.indexAtQuery,
                nearest |-> r.nearest, events |-> r.events,
                wasComputed |-> embeddings_computed,
                wasConnected |-> << openai_client, collection >>,
                indexBefore |-> DOMAIN index,
                result |-> result]

\* the call op took the state to r and returned result (or raised r.exc)
Becomes(op, state, result) == Settles(op, state, result, NotWaiting)

InitWith(detailFiles) ==
    /\ waiting = NotWaiting
    /\ services = << >>
    /\ services_list = << >>
    /\ embeddings_computed = FALSE
    /\ openai_client = FALSE
    /\ collection = FALSE
    /\ index = EmptyMap
    /\ snapshot = AbsentFile
    /\ details \in detailFiles
    /\ origin = EmptyMap
    /\ last = [op |-> "init", exc |-> "none", cause |-> "none",
               localExc |-> "none", remoteExc |-> "none",
               buildExc |-> "none", remoteRows |-> -1, fetched |-> << >>,
               prevOp |-> "none", prevExc |-> "none", hadRecords |-> FALSE,
               wroteSnapshot |-> FALSE,
               localCalls |-> 0, remoteCalls |-> 0, builds |-> 0, merges |-> 0,
               requests |-> << >>, writes |-> << >>, deleted |-> {},
               indexAtBuild |-> {}, toEmbed |-> << >>, flagged |-> FALSE,
               inits |-> 0, queryRequests |-> 0, queried |-> FALSE,
               indexAtQuery |-> {}, nearest |-> << >>, events |-> << >>,
               wasComputed |-> FALSE, wasConnected |-> << FALSE, FALSE >>,
               indexBefore |-> {},
               result |-> << >>]

\* ------------------------------------------------------------------------
\* Calls
\* ------------------------------------------------------------------------

InitOutcomes == {"ok", "noKey", "chromaFails"}
IndexOutcomes == {"ok", "getFails", "getFailsDupRaises"}
WriteOutcomes == {"ok", "failBefore", "failMid"}

\* inputs of a build: how initialisation ends, the batch that fails (0: none),
\* how the collection answers
BuildEnvs(inits, idxs, maxFail) ==
    {[NoEnv EXCEPT !.init = "ok", !.failAt = f, !.idx = x] :
        f \in 0..maxFail, x \in idxs}
    \cup {[NoEnv EXCEPT !.init = i] : i \in inits}

\* inputs of a load: those of the build it may run, the endpoint's answer and
\* whether deleting vectors fails
LoadEnvs(buildEnvs, answers, clearFails) ==
    {[e EXCEPT !.remote = r, !.clearFails = c] :
        e \in buildEnvs, r \in answers, c \in clearFails}

CallLoadServices(envs) ==
    \E env \in envs :
        Becomes("load_services", LoadServices(Cur, env), << >>)

RunLoaderScript(envs) ==
    \E env \in envs, w \in WriteOutcomes :
        Becomes("main", LoaderScript(Cur, [env EXCEPT !.write = w]), << >>)

\* the record of an add is the list of the records it was called with
CallAddService(added) ==
    \E service \in added :
        Becomes("add_service", AddService(Cur, service, "added"), << service >>)

CallAddServices(lists) ==
    \E recs \in lists :
        Becomes("add_services", AddServices(Cur, recs, "added"), recs)

\* a construction: the parts of the URI and the id it was called with, and
\* the object as __post_init__ left it
CallConstruct(forms, ids) ==
    \E f \in forms, id \in ids :
        Becomes("GovernmentService", Construct(Cur, UriText(f), id),
                [form |-> f, id |-> id,
                 service |-> GovernmentService(UriText(f), id, << "N" >>,
                                               NoText, << >>)])

CallClear ==
    \E c \in BOOLEAN :
        Becomes("clear", Clear(Cur, [NoEnv EXCEPT !.clearFails = c]), << >>)

CallComputeEmbeddings(envs) ==
    \E env \in envs :
        Becomes("_compute_embeddings", ComputeEmbeddings(Cur, env), << >>)

CallStoreToLocal ==
    \E w \in WriteOutcomes :
        Becomes("_store_to_local", StoreToLocal(Cur, [NoEnv EXCEPT !.write = w]), << >>)

CallLoadFromLocal ==
    Becomes("_load_from_local", LoadFromLocal(Cur, NoEnv), << >>)

CallGetEmbeddingStatistics ==
    \E i \in InitOutcomes :
        Becomes("get_embedding_statistics",
                StatisticsState(Cur, [NoEnv EXCEPT !.init = i]),
                << EmbeddingStatistics(Cur, [NoEnv EXCEPT !.init = i]) >>)

\* a search: what it was called with and the identifiers of the records it
\* returned, in order
CallSearchByKeywordsMutFiltersCatalog(lists, ks) ==
    \E keywords \in lists, k \in ks :
        Becomes("search_services_by_keywords",
                [Cur EXCEPT !.services_list =
                    SearchServicesByKeywords(services_list, keywords, k)],
                [keywords |-> keywords, k |-> k,
                 ids |-> IdSeq(SearchServicesByKeywords(services_list, keywords, k))])

CallSearchByKeywords(lists, ks) ==
    \E keywords \in lists, k \in ks :
        Becomes("search_services_by_keywords", Cur,
                [keywords |-> keywords, k |-> k,
                 ids |-> IdSeq(SearchServicesByKeywords(services_list, keywords, k))])

\* inputs of a semantic search: those of the build it may run, whether the
\* embedding of the query text fails and how the metric ranks the vectors
SearchEnvs(buildEnvs, queries, ranks) ==
    {[e EXCEPT !.query = q, !.rank = r] :
        e \in buildEnvs, q \in queries, r \in ranks}

SearchReturns(state, text, k) ==
    \E r \in {state} :
        Becomes("search_services_semantically", r,
                [text |-> text, k |-> k, ids |-> r.returned])

CallSearchSemantically(envs, texts, ks) ==
    \E env \in envs, text \in texts, k \in ks :
        SearchReturns(SearchServicesSemantically(Cur, env, text, k), text, k)

\* load_services called: it returns when the snapshot serves it, and is
\* blocked in g.query when it goes to the remote source
EnterLoadServices(envs) ==
    \E env \in envs :
        /\ waiting.at = "none"
        /\ IF ReachesRemoteQuery(Cur, env)
           THEN Settles("load_services", BeforeRemoteQuery(Cur, env), << >>,
                        InQuery(env))
           ELSE Becomes("load_services", LoadServices(Cur, env), << >>)

\* get_service_steps_by_id called: it returns at once for an empty id and
\* is blocked in g.query otherwise
EnterGetServiceSteps(ids) ==
    \E id \in ids :
        /\ waiting.at = "none"
        /\ IF id = NoText
           THEN Becomes("get_service_steps_by_id", Cur, << >>)
           ELSE Settles("get_service_steps_by_id", Cur, << >>, InQuery(NoEnv))

\* the handler op has the endpoint's answer in env: where it will stand
\* when it has run on to its return or raise, and what it will return.  The
\* state in which load_services was blocked is the one its steps 1 and 2
\* lead to again, so the call is run from there with the answer.
Answered(op, env) ==
    [at |-> "answered", env |-> env,
     next |-> IF op = "load_services" THEN LoadServices(Cur, env)
              ELSE GetServiceSteps(Cur, env),
     result |-> IF op = "load_services" \/ env.remote.kind = "fail" THEN << >>
                ELSE StepTexts(env.remote.rows)]

\* the endpoint answers the query a handler is blocked in, with rows or
\* with a failure
EndpointAnswers(answers) ==
    \E r \in answers :
        /\ waiting.at = "g.query"
        /\ waiting' = Answered(last.op, [waiting.env EXCEPT !.remote = r])
        /\ UNCHANGED << services, services_list, embeddings_computed,
                        openai_client, collection, index, snapshot, details,
                        origin, last >>

\* the handler runs on with the answer and returns or raises
Resume ==
    /\ waiting.at = "answered"
    /\ Settles(last.op, waiting.next, waiting.result, NotWaiting)

\* a new process: a new store object, the files and the collection stay
NewProcess == Becomes("__init__", Fresh(Cur), << >>)

\* the environment replaces the snapshot file or the detail file
SetSnapshot(files) ==
    \E f \in files :
        Becomes("set_snapshot", [Cur EXCEPT !.snapshot = f], << >>)

SetDetails ==
    \E f \in DetailFiles :
        Becomes("set_details", [Cur EXCEPT !.details = f], << >>)

\* _load_auxiliary_details on the catalog as it is
CallLoadAuxiliaryDetails ==
    /\ \A i \in 1..Len(services_list) :
          /\ Len(services_list[i].keywords) < MaxKeywords
          /\ Len(services_list[i].description) <= MaxDescription
    /\ Becomes("_load_auxiliary_details", LoadAuxiliaryDetails(Cur), << >>)

\* get_all_services, and the caller appending a record to what it got
CallGetAllServices(added) ==
    \E service \in added :
        Becomes("get_all_services",
                CallerAppends(Cur, GetAllServices(Cur), service),
                Append(GetAllServices(Cur).items, service))

CallGetServiceDetailById(ids) ==
    \E id \in ids :
        Becomes("get_service_detail_by_id", Cur, GetServiceDetailById(Cur, id))

\* ------------------------------------------------------------------------
\* Specifications
\* ------------------------------------------------------------------------

\* The catalog loader: loads against every snapshot file and endpoint answer,
\* on stores that hold records or not; the build of a remote load succeeds,
\* fails at initialisation or fails at its first batch.
LoaderEnvs ==
    LoadEnvs(BuildEnvs({"ok", "noKey"}, {"ok"}, 1),
             {RemoteFails, NoRows, NoValidRows, ThreeRows}, {FALSE})

ScriptEnvs ==
    LoadEnvs(BuildEnvs({"ok", "noKey"}, {"ok"}, 0),
             {RemoteFails, NoRows, ThreeRows}, {FALSE})

Next ==
    \/ CallLoadServices(LoaderEnvs)
    \/ RunLoaderScript(ScriptEnvs)
    \/ CallAddService({Added1})
    \/ CallStoreToLocal
    \/ SetSnapshot(SnapshotFiles \ {ScalarFile})

Init == InitWith({NoDetailFile, DetailFileRaising})

Spec == Init /\ [][Next]_vars

\* The semantic index: builds on catalogs of up to six records over several
\* batches, with every outcome of initialisation, of the read of the stored
\* identifiers and of each batch; clear() with and without a collection
\* handle; a new process over the same persisted collection.
IndexLoadEnvs ==
    LoadEnvs(BuildEnvs({"ok", "noKey"}, {"ok"}, MaxBatch), {SevenRows}, {FALSE, TRUE})

NextIndex ==
    \/ CallLoadServices(IndexLoadEnvs)
    \/ CallComputeEmbeddings(BuildEnvs(InitOutcomes, IndexOutcomes, MaxBatch))
    \/ CallAddService({Added2})
    \/ CallClear
    \/ NewProcess

InitIndex == InitWith({NoDetailFile})

SpecIndex == InitIndex /\ [][NextIndex]_vars

\* Semantic search: queries with blank and non-blank text on stores whose
\* index is unbuilt, built, cleared or left behind by an earlier process;
\* the build a query runs succeeds, fails at initialisation or at its first
\* batch; the status query and keyword search on the same stores.
SemanticLoadEnvs ==
    LoadEnvs(BuildEnvs({"noKey"}, {"ok"}, 0), {ThreeRows}, {FALSE})

SemanticSearchEnvs ==
    SearchEnvs(BuildEnvs({"noKey"}, {"ok", "getFails"}, 1),
               {"ok", "embedFails"}, SimilarityRanks)

NextSemantic ==
    \/ CallLoadServices(SemanticLoadEnvs)
    \/ CallAddService({Added2})
    \/ CallClear
    \/ NewProcess
    \/ CallSearchSemantically(SemanticSearchEnvs, QueryTexts, {-1, 1, 10})
    \/ CallGetEmbeddingStatistics
    \/ CallSearchByKeywords(KeywordLists, {10})

InitSemantic == InitWith({NoDetailFile})

SpecSemantic == InitSemantic /\ [][NextSemantic]_vars

\* Keyword search: every keyword list and every k on every catalog that
\* add_service can build from the keyword records, in every order.
NextKeywords ==
    \/ CallAddService(KeywordRecords)
    \/ CallSearchByKeywords(SearchKeywordLists, SearchSizes)

InitKeywords == InitWith({NoDetailFile})

SpecKeywords == InitKeywords /\ [][NextKeywords]_vars

\* The record model and the catalog: constructions over every URI form and
\* id argument; add_service and add_services with records and lists whose
\* ids collide, in every order.
NextCatalog ==
    \/ CallConstruct(UriForms, GivenIds)
    \/ CallAddService(CatalogRecords)
    \/ CallAddServices(CatalogLists)

InitCatalog == InitWith({NoDetailFile})

SpecCatalog == InitCatalog /\ [][NextCatalog]_vars

\* The snapshot store: _store_to_local of every catalog that add_service
\* builds from three records, with every outcome of the write;
\* _load_from_local and load_services against every snapshot file, written
\* by the store or put there by the environment; a new process over the
\* same file.  The loads run without OPENAI_API_KEY.
SnapshotRecords == {Added1, Added2, CatalogRecord(4)}

SnapshotLoadEnvs ==
    {e \in LoadEnvs(BuildEnvs({"noKey"}, {"ok"}, 0), {RemoteFails, SevenRows}, {FALSE}) :
        e.init = "noKey"}

NextSnapshot ==
    \/ CallAddService(SnapshotRecords)
    \/ CallStoreToLocal
    \/ CallLoadFromLocal
    \/ CallLoadServices(SnapshotLoadEnvs)
    \/ SetSnapshot(LocalFiles)
    \/ NewProcess

InitSnapshot == InitWith({NoDetailFile})

SpecSnapshot == InitSnapshot /\ [][NextSnapshot]_vars

\* Calls that wait for the remote endpoint: load_services and
\* get_service_steps_by_id as two steps each, up to g.query and from its
\* answer on, against snapshot files that serve the load or do not.  The
\* endpoint answers when it chooses to, or never; a handler that has its
\* answer runs on (weak fairness of Resume).  The loads run without OPENAI_API_KEY.
BlockingEnvs == {[NoEnv EXCEPT !.init = "noKey"]}

NextBlocking ==
    \/ EnterLoadServices(BlockingEnvs)
    \/ EnterGetServiceSteps({NoText, << "s", "1" >>})
    \/ EndpointAnswers({RemoteFails, NoRows, ThreeRows, SevenRows})
    \/ Resume
    \/ waiting.at = "none" /\ CallAddService(AddedServices)
    \/ waiting.at = "none" /\ SetSnapshot(SnapshotFiles)

InitBlocking == InitWith({NoDetailFile})

SpecBlocking ==
    /\ InitBlocking
    /\ [][NextBlocking]_vars
    /\ WF_vars(Resume)

\* The detail file: the merge and the lookup against every detail file, on
\* every catalog that add_service builds from three records; a record that
\* is added again is the unmerged one.
DetailRecords == {Added1, Added2, Added3}

DetailIds == {<< "s", "1" >>, << "s", "3" >>, << "u", "1" >>}

NextDetails ==
    \/ CallAddService(DetailRecords)
    \/ CallLoadAuxiliaryDetails
    \/ CallGetServiceDetailById(DetailIds)
    \/ SetDetails

InitDetails == InitWith({NoDetailFile})

SpecDetails == InitDetails /\ [][NextDetails]_vars

\* The store's two views: add_service and add_services with colliding ids,
\* clear, load_services from the endpoint, and callers that change the list
\* get_all_services gave them; builds with a working provider and
\* collection on the catalogs so made.
NextStore ==
    \/ CallAddService(CatalogRecords)
    \/ CallAddServices(CatalogLists)
    \/ CallClear
    \/ CallLoadServices(SnapshotLoadEnvs)
    \/ CallGetAllServices({Added1})
    \/ CallComputeEmbeddings(BuildEnvs({"ok"}, {"ok"}, 0))

InitStore == InitWith({NoDetailFile})

SpecStore == InitStore /\ [][NextStore]_vars

\* ------------------------------------------------------------------------
\* Properties of the catalog loader (checked under Spec)
\* ------------------------------------------------------------------------

LoadReturned == last.op = "load_services"

\* the catalog is made of the snapshot's records, of the endpoint's, of neither
AllFrom(tag) ==
    /\ DOMAIN origin = Ids(services_list)
    /\ \A i \in DOMAIN origin : origin[i] = tag

\* the catalog a snapshot file yields: one record per identifier, the last
\* entry of an identifier at the place of its first
CatalogOfSnapshot == DictPutAll(<< >>, LoadedFromEntries(snapshot.entries))

\* C1: whenever the snapshot file exists and parses (load_services never
\* writes it, so the file after the call is the file it read), load_services
\* returns with the catalog the snapshot yields, having made no remote fetch
\* and run no embedding build, whatever number of records that is.
C1_SnapshotLoadIsFinal ==
    (LoadReturned /\ snapshot.kind = "array") =>
        /\ last.exc = "none"
        /\ last.remoteCalls = 0
        /\ last.builds = 0
        /\ services_list = CatalogOfSnapshot

C4_NoHybridCatalog ==
    LoadReturned =>
        \/ AllFrom("local") /\ last.remoteCalls = 0
        \/ AllFrom("remote") /\ last.remoteCalls = 1

C4_Witness ==
    /\ LoadReturned
    /\ last.hadRecords
    /\ last.localExc # "none"
    /\ services_list # << >>
    /\ AllFrom("remote")

Occurs(text, pat) ==
    \E i \in 1..(Len(text) - Len(pat) + 1) : SubSeq(text, i, i + Len(pat) - 1) = pat

\* the record holds one of the keywords, letter case and surrounding blanks
\* of the keyword aside
Matches(service, keywords) ==
    \E j \in 1..Len(keywords) :
        /\ Strip(Lower(keywords[j])) # NoText
        /\ Occurs(SearchableText(service), Strip(Lower(keywords[j])))

\* keyword search over the present catalog returns the records that match
KeywordSearchServesCatalog ==
    \A keywords \in KeywordLists :
        Ids(SearchServicesByKeywords(services_list, keywords, Len(services_list)))
            = {services_list[i].id : i \in {j \in 1..Len(services_list) :
                                             Matches(services_list[j], keywords)}}

\* C6: when the embedding build of a remote load failed, load_services
\* returned normally, the fetched catalog is in place, keyword search returns
\* its matching records, and get_embedding_statistics reports
\* embeddings_computed = false.
C6_BuildFailureDegradesQuietly ==
    (LoadReturned /\ last.buildExc # "none") =>
        /\ last.exc = "none"
        /\ services_list # << >>
        /\ IdSeq(services_list) = last.fetched
        /\ services = services_list
        /\ AllFrom("remote")
        /\ KeywordSearchServesCatalog
        /\ \A i \in InitOutcomes :
              ~EmbeddingStatistics(Cur, [NoEnv EXCEPT !.init = i]).embeddings_computed

C6_Witness ==
    /\ LoadReturned
    /\ last.buildExc # "none"
    /\ last.requests # << >>
    /\ SearchServicesByKeywords(services_list, << << "T", "A", "X" >> >>, 10) # << >>

\* C7: with no snapshot file and an endpoint that answers with zero rows,
\* load_services returns normally with an empty catalog; a load_services
\* that raised had a failing remote call.
C7_EmptyAnswerIsNoFailure ==
    /\ (LoadReturned /\ snapshot.kind = "absent" /\ last.remoteRows = 0) =>
            /\ last.exc = "none"
            /\ services = << >>
            /\ services_list = << >>
    /\ (LoadReturned /\ last.exc # "none") =>
            /\ last.exc = "RuntimeError"
            /\ last.remoteExc # "none"

C7_Witness ==
    /\ LoadReturned
    /\ snapshot.kind = "absent"
    /\ last.remoteRows = 0
    /\ last.exc = "none"
    /\ last.builds = 1
    /\ services_list = << >>

\* ------------------------------------------------------------------------
\* Properties of the semantic index (checked under SpecIndex)
\* ------------------------------------------------------------------------

RECURSIVE IdsIn(_)
\* the identifiers in a sequence of batches
IdsIn(batches) ==
    IF batches = << >> THEN {}
    ELSE {Head(batches)[i] : i \in 1..Len(Head(batches))} \cup IdsIn(Tail(batches))

\* the last call ran a build (directly or inside load_services)
BuildRan == last.builds > 0

\* the build of the last call raised
BuildRaised ==
    \/ last.op = "_compute_embeddings" /\ last.exc # "none"
    \/ last.op # "_compute_embeddings" /\ last.buildExc # "none"

\* catalog records whose id was no key of the collection when the build began
Unindexed == Ids(services_list) \ last.indexAtBuild

\* C8: in every build, what is sent to the embedding provider and what is
\* written to the collection are records that were not indexed when the
\* build began, all of them when the build returns; no indexed record is
\* sent or written again, and a build on a fully indexed catalog sends
\* nothing.
C8_BuildEmbedsOnlyUnindexed ==
    BuildRan =>
        /\ IdsIn(last.requests) \subseteq Unindexed
        /\ IdsIn(last.writes) \subseteq Unindexed
        /\ ~BuildRaised =>
              /\ IdsIn(last.requests) = Unindexed
              /\ IdsIn(last.writes) = Unindexed
        /\ Unindexed = {} => last.requests = << >> /\ last.writes = << >>

\* C9: a build that directly follows a build that returned, on the same
\* catalog, sends no embedding request and writes nothing.
C9_SecondBuildIsNoOp ==
    (/\ last.op = "_compute_embeddings"
     /\ last.prevOp = "_compute_embeddings"
     /\ last.prevExc = "none") =>
        /\ last.requests = << >>
        /\ last.writes = << >>
        /\ last.indexAtBuild = DOMAIN index

\* the build of the last call raised at a batch: requests went out, and the
\* last of them, or its write, failed
FailedAtBatch == BuildRan /\ BuildRaised /\ last.requests # << >>

\* C10: when batch i of a build fails, the build raises, the batches before
\* i are in the collection, no record of batch i or of a later batch is, and
\* the call has not set the computed flag.
C10_FailedBatchLeavesEarlierOnes ==
    FailedAtBatch =>
        /\ Len(last.writes) = Len(last.requests) - 1
        /\ last.writes = SubSeq(last.requests, 1, Len(last.writes))
        /\ IdsIn(last.writes) \subseteq DOMAIN index
        /\ (IdsIn(<< last.toEmbed >>) \ IdsIn(last.writes)) \cap DOMAIN index = {}
        /\ ~last.flagged
        /\ last.op = "load_services" => ~embeddings_computed

\* ------------------------------------------------------------------------
\* Properties of semantic search (checked under SpecSemantic)
\* ------------------------------------------------------------------------

\* a text of nothing but whitespace
OnlyWhitespace(text) == \A i \in 1..Len(text) : text[i] = " "

\* the last call was a semantic search
Searched == last.op = "search_services_semantically"

\* the store's own state and what it persists are as they were
StoreUnchanged ==
    UNCHANGED << services, services_list, embeddings_computed, openai_client,
                 collection, index, snapshot, details >>

\* C11: a semantic search with non-blank text on a store whose computed flag
\* is false or whose collection is empty runs the build, unless the
\* initialisation raised; it sends the query text to the provider and
\* queries the collection only after that build returned, and when the
\* collection is queried every record of the catalog is in it.
C11_SearchBuildsFirst ==
    (/\ Searched
     /\ ~OnlyWhitespace(last.result.text)
     /\ ~last.wasComputed \/ last.indexBefore = {}) =>
        /\ last.builds = 1 \/ (last.builds = 0 /\ last.inits = 1 /\ last.exc # "none")
        /\ last.queryRequests > 0 \/ last.queried => last.builds = 1
        /\ last.queried => Ids(services_list) \subseteq last.indexAtQuery

\* C11 witness: such a search embedded catalog records and then queried
C11_Witness ==
    /\ Searched
    /\ ~OnlyWhitespace(last.result.text)
    /\ ~last.wasComputed
    /\ last.requests # << >>
    /\ last.queried
    /\ last.result.ids # << >>

\* C12: the identifiers a semantic search returns are those the collection
\* answered that the catalog holds, in the collection's order: each is the
\* id of a catalog record, the others are dropped without error, and there
\* are at most k of them.
C12_SearchReturnsLiveRecords ==
    (Searched /\ last.exc = "none") =>
        /\ \A i \in 1..Len(last.result.ids) : last.result.ids[i] \in Ids(services)
        /\ last.result.ids =
              SelectSeq(last.nearest, LAMBDA id : id \in Ids(services))
        /\ \A i, j \in 1..Len(last.result.ids) :
              i # j => last.result.ids[i] # last.result.ids[j]
        /\ Len(last.result.ids) <= (IF last.result.k < 0 THEN 0 ELSE last.result.k)

\* C12 witness: the collection answered an identifier the catalog does not
\* hold, and one it holds
C12_Witness ==
    /\ Searched
    /\ last.exc = "none"
    /\ \E i \in 1..Len(last.nearest) : last.nearest[i] \notin Ids(services)
    /\ last.result.ids # << >>

\* C13: a semantic search with empty or whitespace-only text returns an
\* empty list without raising, sends nothing to the provider, does not
\* initialise, read or query the collection, runs no build, and leaves the
\* store and what it persists as they were.
C13_BlankSearchDoesNothing ==
    [][(last'.op = "search_services_semantically" /\ OnlyWhitespace(last'.result.text)) =>
          /\ last'.result.ids = << >>
          /\ last'.exc = "none"
          /\ last'.queryRequests = 0 /\ last'.requests = << >>
          /\ last'.inits = 0 /\ ~last'.queried /\ last'.builds = 0
          /\ last'.writes = << >> /\ last'.deleted = {}
          /\ StoreUnchanged]_vars

\* C13 witness: a whitespace-only search on a store with records whose
\* index is not built
C13_Witness ==
    /\ Searched
    /\ last.result.text = << " ", " " >>
    /\ services_list # << >>
    /\ ~embeddings_computed

\* C14: after clear() returns the collection holds no vector and the
\* computed flag is false, whether or not this process has initialised its
\* collection handle.
C14_ClearEmptiesIndex ==
    last.op = "clear" => index = EmptyMap /\ ~embeddings_computed

\* C15: right after clear(), on the empty catalog, keyword search returns an
\* empty list, semantic search returns an empty list and its query of the
\* collection raises nothing, and the statistics report no services.  A
\* semantic search that could not reach the provider is not held against
\* the statement, and neither is one that asks for no result.
C15_SearchesAfterClearAreEmpty ==
    (last.prevOp = "clear" /\ services_list = << >>) =>
        /\ last.op = "search_services_by_keywords" => last.result.ids = << >>
        /\ (Searched /\ last.result.k > 0) =>
              /\ last.result.ids = << >>
              /\ last.queried => last.exc = "none"
        /\ last.op = "get_embedding_statistics" =>
              last.result[1].total_services = 0

\* C16: get_embedding_statistics leaves the catalog, the computed flag, the
\* collection's contents and the provider and collection handles as they
\* were, and reports a coverage of 0 on an empty catalog.
C16_StatisticsChangeNothing ==
    [][last'.op = "get_embedding_statistics" =>
          /\ StoreUnchanged
          /\ services_list = << >> => last'.result[1].coverage_percentage = 0]_vars

\* ------------------------------------------------------------------------
\* Properties of keyword search (checked under SpecKeywords)
\* ------------------------------------------------------------------------

\* the last call was a keyword search
KeywordSearched == last.op = "search_services_by_keywords"

\* the catalog record with this id
Record(id) ==
    services_list[CHOOSE i \in 1..Len(services_list) : services_list[i].id = id]

\* the number of places at which pat stands in text
Occurrences(text, pat) ==
    Cardinality({i \in 1..(Len(text) - Len(pat) + 1) :
                    SubSeq(text, i, i + Len(pat) - 1) = pat})

RECURSIVE TotalFrom(_, _, _)
\* the occurrences of the keywords from the j-th on in the record's name,
\* description and keywords, letter case and surrounding blanks aside
TotalFrom(service, keywords, j) ==
    IF j > Len(keywords) THEN 0
    ELSE (IF OnlyWhitespace(keywords[j]) THEN 0
          ELSE Occurrences(SearchableText(service), Strip(Lower(keywords[j]))))
         + TotalFrom(service, keywords, j + 1)

\* the total count of the record for the keywords of the last search
Total(id) == TotalFrom(Record(id), last.result.keywords, 1)

\* a ranks strictly before b: more occurrences, or as many and the smaller
\* lower-cased name
RanksBefore(a, b) ==
    \/ Total(a) > Total(b)
    \/ Total(a) = Total(b)
       /\ TextLess(Lower(Record(a).name), Lower(Record(b).name))

\* the ids of the catalog records that hold a keyword of the last search
MatchingIds == {id \in Ids(services_list) : Total(id) > 0}

\* C17: keyword search returns records of the catalog whose total count of
\* keyword occurrences is positive, each once, ordered by that count
\* descending and among equal counts by lower-cased name ascending; when it
\* returns fewer than k, it returns every such record.
C17_KeywordSearchRanksMatches ==
    KeywordSearched =>
        /\ \A i \in 1..Len(last.result.ids) : last.result.ids[i] \in MatchingIds
        /\ \A i, j \in 1..Len(last.result.ids) :
              i < j => /\ last.result.ids[i] # last.result.ids[j]
                       /\ ~RanksBefore(last.result.ids[j], last.result.ids[i])
        /\ Len(last.result.ids) < last.result.k =>
              MatchingIds = {last.result.ids[i] : i \in 1..Len(last.result.ids)}

\* C17 witness: equal counts ordered by lower-cased name against the order
\* of the raw names, a smaller count last, a record without the keyword left
\* out
C17_Witness ==
    /\ KeywordSearched
    /\ Len(services_list) = 4
    /\ last.result.ids = << << "k", "2" >>, << "k", "1" >>, << "k", "4" >> >>

\* C18: for every keyword list and every k, keyword search returns at most
\* k records (none for a negative k), exactly k when at least k records
\* match, and what it returns is the first k of the ranking: no matching
\* record left out ranks before a returned one.
C18_KeywordSearchReturnsFirstK ==
    KeywordSearched =>
        /\ Len(last.result.ids) <= (IF last.result.k < 0 THEN 0 ELSE last.result.k)
        /\ (last.result.k >= 0 /\ Cardinality(MatchingIds) >= last.result.k) =>
              Len(last.result.ids) = last.result.k
        /\ \A id \in MatchingIds :
              (\A i \in 1..Len(last.result.ids) : last.result.ids[i] # id) =>
                  \A i \in 1..Len(last.result.ids) :
                      ~RanksBefore(id, last.result.ids[i])

\* C19: keyword search with no keyword, or with keywords that are all empty
\* or whitespace, returns an empty list and raises nothing, whatever the
\* catalog holds.
C19_BlankKeywordsReturnNothing ==
    (/\ KeywordSearched
     /\ \A j \in 1..Len(last.result.keywords) :
           OnlyWhitespace(last.result.keywords[j])) =>
        /\ last.result.ids = << >>
        /\ last.exc = "none"

\* C19 witness: a search with blank keywords only on a catalog with records
C19_Witness ==
    /\ KeywordSearched
    /\ services_list # << >>
    /\ last.result.keywords = << << " " >>, << " ", " " >> >>
    /\ last.result.k = 10

\* the upper-case letter of a letter that has one
UpperChar(c) ==
    CASE c = "a" -> "A"
      [] c = "b" -> "B"
      [] c = "c" -> "C"
      [] c = "d" -> "D"
      [] c = "i" -> "I"
      [] c = "m" -> "M"
      [] c = "n" -> "N"
      [] c = "p" -> "P"
      [] c = "t" -> "T"
      [] c = "x" -> "X"
      [] OTHER -> c

Upper(text) == [i \in 1..Len(text) |-> UpperChar(text[i])]

\* a record with the letters of its name, description and keywords in
\* upper case
UpperRecord(service) ==
    [service EXCEPT !.name = Upper(@), !.description = Upper(@),
                    !.keywords = [i \in 1..Len(@) |-> Upper(@[i])]]

\* C20: keyword search does not depend on letter case: the keywords of the
\* last search in lower case and in upper case return the same ids in the
\* same order as they did, and so do they on the catalog with every record's
\* text in upper case.
C20_KeywordSearchIgnoresCase ==
    KeywordSearched =>
        /\ last.result.ids =
              IdSeq(SearchServicesByKeywords(services_list,
                        [j \in 1..Len(last.result.keywords) |->
                            Lower(last.result.keywords[j])], last.result.k))
        /\ last.result.ids =
              IdSeq(SearchServicesByKeywords(services_list,
                        [j \in 1..Len(last.result.keywords) |->
                            Upper(last.result.keywords[j])], last.result.k))
        /\ last.result.ids =
              IdSeq(SearchServicesByKeywords(
                        [i \in 1..Len(services_list) |->
                            UpperRecord(services_list[i])],
                        last.result.keywords, last.result.k))

\* C20 witness: a search with keywords in mixed case that returned records
\* whose text holds them in another case
C20_Witness ==
    /\ KeywordSearched
    /\ last.result.keywords = << << "T", "a", "x" >>, << "B", "I", "D" >> >>
    /\ Len(last.result.ids) >= 2

\* C21: a keyword search leaves the catalog (its records, their fields and
\* their order), the computed flag, the provider and collection handles, the
\* collection's contents and the files as they were, and a keyword search
\* that directly follows one with the same keywords and the same k returns
\* the same identifiers in the same order.  Checked under SpecSemantic, on
\* stores with and without a built index.
C21_KeywordSearchIsReadOnly ==
    [][last'.op = "search_services_by_keywords" =>
          /\ StoreUnchanged
          /\ (/\ KeywordSearched
              /\ last'.result.keywords = last.result.keywords
              /\ last'.result.k = last.result.k) =>
                 last'.result.ids = last.result.ids]_vars

\* C21 witness: a keyword search repeated on a catalog with a built index,
\* returning records
C21_Witness ==
    /\ KeywordSearched
    /\ last.prevOp = "search_services_by_keywords"
    /\ last.result.ids # << >>
    /\ embeddings_computed
    /\ DOMAIN index # {}

\* ------------------------------------------------------------------------
\* Properties of the record model and the catalog (checked under SpecCatalog)
\* ------------------------------------------------------------------------

\* the last call was a construction
Constructed == last.op = "GovernmentService"

\* the id the statement gives a URI of these parts when none is supplied:
\* the fragment, else the last path segment, else none
StatedId(f) ==
    IF f.fragment # NoText THEN f.fragment
    ELSE IF f.segments # << >> THEN f.segments[Len(f.segments)]
    ELSE NoText

\* C22: a construction with an empty id yields the URI's fragment as id when
\* the URI has one, otherwise its last non-empty path segment, and raises
\* when the URI has neither (the empty URI included); a supplied id is kept
\* as it is.  The URI is stored unchanged.
C22_IdDerivedFromUri ==
    Constructed =>
        /\ last.result.id # NoText =>
              /\ last.exc = "none"
              /\ last.result.service.id = last.result.id
        /\ (last.result.id = NoText /\ StatedId(last.result.form) # NoText) =>
              /\ last.exc = "none"
              /\ last.result.service.id = StatedId(last.result.form)
        /\ (last.result.id = NoText /\ StatedId(last.result.form) = NoText) =>
              last.exc = "ValueError"
        /\ last.result.service.uri = UriText(last.result.form)

\* C22 witness: an id taken from the last segment of a path that ends in a
\* slash, on a URI that has a '#' with nothing behind it
C22_Witness ==
    /\ Constructed
    /\ last.exc = "none"
    /\ last.result.id = NoText
    /\ last.result.form.slash /\ last.result.form.hash
    /\ last.result.form.fragment = NoText
    /\ last.result.service.id = << "b" >>

\* C23: every construction that returns leaves an object with a non-empty
\* uri and a non-empty id.
C23_ConstructedHasUriAndId ==
    (Constructed /\ last.exc = "none") =>
        /\ last.result.service.uri # NoText
        /\ last.result.service.id # NoText

\* the position of the first record with this id in a list that has one
FirstWith(recs, id) ==
    CHOOSE i \in 1..Len(recs) :
        recs[i].id = id /\ \A j \in 1..(i - 1) : recs[j].id # id

\* the last record with this id in a list that has one
LastWith(recs, id) ==
    recs[CHOOSE i \in 1..Len(recs) :
            recs[i].id = id /\ \A j \in (i + 1)..Len(recs) : recs[j].id # id]

\* after is before with the records of added put by id: one record per id;
\* the ids of before keep their positions; a record whose id was added is
\* the last one added with it, every other record is as it was; the new ids
\* follow in the order in which they first occur in added
PutById(before, after, added) ==
    /\ \A i, j \in 1..Len(after) : i # j => after[i].id # after[j].id
    /\ Ids(after) = Ids(before) \cup Ids(added)
    /\ Len(after) >= Len(before)
    /\ \A i \in 1..Len(before) : after[i].id = before[i].id
    /\ \A i \in 1..Len(after) :
          after[i] = IF after[i].id \in Ids(added)
                     THEN LastWith(added, after[i].id) ELSE before[i]
    /\ \A i, j \in (Len(before) + 1)..Len(after) :
          i < j => FirstWith(added, after[i].id) < FirstWith(added, after[j].id)

\* C24: every add_service and add_services call leaves the catalog keyed by
\* id: one record per distinct id, the last one added with that id; ids
\* already present keep their positions and new ids go last in the order of
\* their first insertion; the list of records is the dict's values.  The
\* catalog starts empty, so this holds after every sequence of such calls.
C24_CatalogKeyedById ==
    [][last'.op \in {"add_service", "add_services"} =>
          /\ services_list' = services'
          /\ PutById(services_list, services_list', last'.result)]_vars

\* C24 witness: add_services with a list that repeats ids replaced the first
\* record of the catalog where it stood and appended a new id
C24_Witness ==
    /\ last.op = "add_services"
    /\ Len(last.result) = 4
    /\ last.hadRecords
    /\ IdSeq(services_list) = << << "a" >>, << "c" >>, << "b" >> >>
    /\ services_list[1] = CatalogRecord(2)

\* ------------------------------------------------------------------------
\* Properties of the snapshot store (checked under SpecSnapshot)
\* ------------------------------------------------------------------------

\* the last call was a _store_to_local that returned, of a catalog with
\* records
StoredCatalog ==
    /\ last.op = "_store_to_local"
    /\ last.exc = "none"
    /\ services_list # << >>

\* C25: after _store_to_local of a non-empty catalog, _load_from_local into
\* a fresh store returns and yields the same records in the same order,
\* equal in id, name, uri, description and keywords; and so does a
\* _load_from_local that the storing store itself runs next.
C25_StoreThenLoadRoundTrip ==
    [][/\ StoredCatalog =>
             /\ LoadFromLocal(Fresh(Cur), NoEnv).exc = "none"
             /\ LoadFromLocal(Fresh(Cur), NoEnv).services_list = services_list
       /\ (StoredCatalog /\ last'.op = "_load_from_local") =>
             /\ last'.exc = "none"
             /\ services_list' = services_list
             /\ services' = services_list]_vars

\* C25 witness: a load that followed the store of a catalog of three
\* records, one with keywords, one with an empty uri and a supplied id
C25_Witness ==
    /\ last.op = "_load_from_local"
    /\ last.prevOp = "_store_to_local"
    /\ last.prevExc = "none"
    /\ Len(services_list) = 3
    /\ \E i \in 1..3 : services_list[i].keywords # << >>
    /\ \E i \in 1..3 : services_list[i].uri = NoText

\* the last call was a _load_from_local
LoadedLocal == last.op = "_load_from_local"

\* an entry of the file is well formed: it has the four required fields and
\* an id, its own or one its uri gives
WellFormed(e) ==
    /\ {"uri", "id", "name", "description"} \subseteq DOMAIN e
    /\ e.id # NoText \/ DerivedId(e.uri, NoText) # NoText

\* the catalog holds the well-formed entries of the file, in the file's
\* order, field by field
HoldsWellFormed(entries, list) ==
    \E kept \in {SelectSeq(entries, WellFormed)} :
        /\ Len(list) = Len(kept)
        /\ \A i \in 1..Len(kept) :
              /\ list[i].uri = kept[i].uri
              /\ list[i].name = kept[i].name
              /\ list[i].description = kept[i].description
              /\ list[i].id = IF kept[i].id # NoText THEN kept[i].id
                              ELSE DerivedId(kept[i].uri, NoText)
              /\ list[i].keywords = IF "keywords" \in DOMAIN kept[i]
                                    THEN kept[i].keywords ELSE << >>

C27_StoreIsAtomic ==
    [][last'.op = "_store_to_local" =>
          \/ snapshot' = snapshot
          \/ /\ snapshot'.kind = "array"
             /\ HoldsWellFormed(snapshot'.entries, services_list)
             /\ Len(snapshot'.entries) = Len(services_list)]_vars

\* C30: every record of the catalog after a load that returned, from the
\* snapshot or from the remote source, has a non-empty name.
C30_LoadedRecordsAreNamed ==
    (last.op \in {"_load_from_local", "load_services"} /\ last.exc = "none") =>
        \A i \in 1..Len(services_list) : services_list[i].name # NoText

\* ------------------------------------------------------------------------
\* Interrupted builds (checked under SpecIndex)
\* ------------------------------------------------------------------------

\* the identifiers of a batch, as a set
BatchIds(batch) == {batch[i] : i \in 1..Len(batch)}

\* C29: a _compute_embeddings step, wherever it stops, leaves in the
\* collection exactly what it held before plus the batches the step wrote,
\* with what it held unchanged; the batches written are whole batches of the
\* records the build set out to embed, in order, up to the one at which it
\* stopped; and of a batch that was not written the collection holds no
\* vector that it did not hold before.
C29_InterruptedBuildKeepsWholeBatches ==
    [][last'.op = "_compute_embeddings" =>
          /\ DOMAIN index' = DOMAIN index \cup IdsIn(last'.writes)
          /\ \A id \in DOMAIN index : index'[id] = index[id]
          /\ Len(last'.writes) <= Len(last'.requests)
          /\ last'.writes = SubSeq(last'.requests, 1, Len(last'.writes))
          /\ \A b \in 1..Len(last'.requests) :
                last'.requests[b] =
                    SubSeq(last'.toEmbed, (b - 1) * BatchSize + 1,
                           Min(b * BatchSize, Len(last'.toEmbed)))
          /\ last'.exc = "none" => Len(last'.writes) * BatchSize >= Len(last'.toEmbed)
                                  \/ last'.requests = << >>
          /\ \A b \in (Len(last'.writes) + 1)..Len(last'.requests) :
                BatchIds(last'.requests[b]) \cap DOMAIN index' \subseteq DOMAIN index]_vars

\* C29 witness: a build that stopped at its second batch on a collection
\* that held vectors before
C29_Witness ==
    /\ last.op = "_compute_embeddings"
    /\ last.exc # "none"
    /\ Len(last.writes) = 1
    /\ Len(last.requests) = 2
    /\ last.indexAtBuild # {}
    /\ IdsIn(last.writes) \subseteq DOMAIN index

\* ------------------------------------------------------------------------
\* Termination of calls that wait for the endpoint (checked under
\* SpecBlocking)
\* ------------------------------------------------------------------------

\* C28: a call that is waiting for the remote endpoint eventually returns or
\* raises, whether or not the endpoint ever answers.
C28_BlockedCallsTerminate ==
    [](waiting.at = "g.query" => <>(waiting.at = "none"))

\* ------------------------------------------------------------------------
\* The detail file (checked under SpecDetails)
\* ------------------------------------------------------------------------

\* r is a record of the catalog the detail file has an entry for
HasDetailEntry(r) ==
    details.kind = "ok" /\ EntriesFor(details.items, r.id) # {}

\* b is a with text appended to its description and keywords appended to
\* its keywords, or a itself
GrownFrom(a, b) ==
    /\ b.uri = a.uri /\ b.id = a.id /\ b.name = a.name
    /\ StartsWith(b.description, a.description)
    /\ Len(b.keywords) >= Len(a.keywords)
    /\ SubSeq(b.keywords, 1, Len(a.keywords)) = a.keywords

\* C31: _load_auxiliary_details returns without raising; it keeps the
\* records of the catalog, their ids and their order; a record without a
\* detail entry of its id is left as it was; a record with one only has text
\* appended to its description and keywords appended to its keywords; with
\* no detail file nothing changes at all.
C31_MergeOnlyAppendsToMatching ==
    [][last'.op = "_load_auxiliary_details" =>
          /\ last'.exc = "none"
          /\ Len(services_list') = Len(services_list)
          /\ services' = services_list'
          /\ \A i \in 1..Len(services_list) :
                /\ GrownFrom(services_list[i], services_list'[i])
                /\ ~HasDetailEntry(services_list[i]) =>
                       services_list'[i] = services_list[i]
          /\ details.kind = "absent" =>
                UNCHANGED << services, services_list, embeddings_computed,
                             openai_client, collection, index, snapshot,
                             details, origin >>]_vars

\* C31 witness: a merge has appended a keyword to the record s1 next to the
\* record u1, which has no detail entry
C31_Witness ==
    /\ last.op = "_load_auxiliary_details"
    /\ details.kind = "ok"
    /\ \E i, j \in 1..Len(services_list) :
          /\ services_list[i].id = << "s", "1" >>
          /\ services_list[i].keywords = << << "t", "a", "x" >> >>
          /\ services_list[i].description # Added1.description
          /\ services_list[j] = Added2

\* the labels of the formatted detail and the fields of the entry each is
\* made from
DetailLabels ==
    { [label |-> "Prinos", from |-> {"benefit"}],
      [label |-> "Caste dotazy", from |-> {"faq"}],
      [label |-> "Pro koho je sluzba urcena", from |-> {"target"}],
      [label |-> "Kde a jak sluzbu resit elektronicky", from |-> {"elWhere", "elHow"}],
      [label |-> "Kde a jak sluzbu resit osobne", from |-> {"osWhere", "osHow"}],
      [label |-> "Kdy sluzbu resit", from |-> {"when"}],
      [label |-> "Co je vystupem nebo vysledkem sluzby", from |-> {"output"}] }

\* the entry a lookup of id reads
DetailEntry(id) ==
    details.items[CHOOSE i \in EntriesFor(details.items, id) :
                      \A j \in EntriesFor(details.items, id) : i <= j]

\* the entry has no text for any of the fields
Absent(item, fields) ==
    \A f \in fields : f \notin DOMAIN item \/ item[f] = NoText

\* C32: get_service_detail_by_id returns None when there is no detail file
\* or no entry for the id; otherwise its result has a line for each of the
\* seven labels, and the line of a label whose fields the entry lacks holds
\* the placeholder.
C32_DetailHasEveryLabelledField ==
    last.op = "get_service_detail_by_id" =>
        IF details.kind # "ok" \/ EntriesFor(details.items, last.result.id) = {}
        THEN ~last.result.found
        ELSE /\ last.result.found
             /\ \A l \in DetailLabels :
                   \E p \in 1..Len(last.result.parts) :
                      /\ last.result.parts[p].label = l.label
                      /\ Absent(DetailEntry(last.result.id), l.from) =>
                             last.result.parts[p].text = NotAvailable

\* ------------------------------------------------------------------------
\* Order of the batches of a build (checked under SpecIndex)
\* ------------------------------------------------------------------------

\* where the record with this id stands in the catalog
PositionOf(id) == CHOOSE i \in 1..Len(services_list) : services_list[i].id = id

\* C33: in every build the k-th request is the request for batch k and is
\* made only after batch k - 1 was written to the collection, so that no two
\* requests are open at once; the batches follow the order of the catalog:
\* within a batch and from one batch to the next the records are requested
\* in the order in which the catalog holds them.
C33_BatchesRunOneAtATime ==
    BuildRan =>
        /\ \A k \in 1..Len(last.events) :
              last.events[k] = IF k % 2 = 1 THEN Requested((k + 1) \div 2)
                                            ELSE Written(k \div 2)
        /\ Len(last.requests) = (Len(last.events) + 1) \div 2
        /\ Len(last.writes) = Len(last.events) \div 2
        /\ \A a, b \in 1..Len(last.requests) :
              \A i \in 1..Len(last.requests[a]), j \in 1..Len(last.requests[b]) :
                 (a < b \/ (a = b /\ i < j)) =>
                     PositionOf(last.requests[a][i]) < PositionOf(last.requests[b][j])

\* C33 witness: a build that wrote two batches and requested a third
C33_Witness ==
    /\ last.op = "_compute_embeddings"
    /\ Len(last.events) >= 5
    /\ Len(last.requests[1]) = BatchSize

\* ------------------------------------------------------------------------
\* The two views of the store (checked under SpecStore)
\* ------------------------------------------------------------------------

\* ids a caller may ask for
AskedIds ==
    Ids(services) \cup {CatalogRecord(n).id : n \in 1..4} \cup {<< "s", "1" >>, << "z" >>}

\* C34: in every state the list view is the map's records in the map's
\* order; len(store) and get_services_count() are the number of distinct
\* ids added since the last clear; `id in store` holds exactly when
\* get_service_by_id(id) returns a record; and a caller that appends to the
\* list get_all_services returned leaves the store as it was.
C34_ListAndMapAgree ==
    /\ services_list = services
    /\ Cardinality(Ids(services)) = Len(services)
    /\ StoreLen(Cur) = GetServicesCount(Cur)
    /\ GetServicesCount(Cur) = Cardinality(DOMAIN origin)
    /\ \A id \in AskedIds :
          /\ Contains(Cur, id) <=> GetServiceById(Cur, id) # << >>
          /\ Contains(Cur, id) <=> id \in DOMAIN origin
    /\ last.op = "get_all_services" =>
          last.result = Append(services_list, Added1)

\* C34 witness: a caller appended to the list it got from a store that
\* holds two records
C34_Witness ==
    /\ last.op = "get_all_services"
    /\ last.prevOp = "add_service"
    /\ services = << CatalogRecord(2), CatalogRecord(3) >>
    /\ Len(last.result) = 3

\* ------------------------------------------------------------------------
\* The computed flag and the collection (checked under SpecIndex)
\* ------------------------------------------------------------------------

\* C35: whenever the computed flag is set, the collection holds a vector
\* under the id of every record of the catalog.
C35_ComputedFlagMeansAllIndexed ==
    embeddings_computed => Ids(services_list) \subseteq DOMAIN index

\* the last call was a load_services whose build returned, or a build that
\* returned right after a load_services that returned
BuiltAfterLoad ==
    \/ /\ last.op = "load_services" /\ last.exc = "none"
       /\ BuildRan /\ ~BuildRaised
    \/ /\ last.op = "_compute_embeddings" /\ last.exc = "none"
       /\ last.prevOp = "load_services" /\ last.prevExc = "none"

\* C36: after load_services and a build that returned, every key of the
\* collection is the id of a catalog record, and get_embedding_statistics
\* reports no more embeddings than services and a coverage of at most 100
\* percent.
C36_IndexWithinCatalog ==
    BuiltAfterLoad =>
        /\ DOMAIN index \subseteq Ids(services_list)
        /\ EmbeddingStatistics(Cur, NoEnv).total_embeddings
              <= EmbeddingStatistics(Cur, NoEnv).total_services
        /\ EmbeddingStatistics(Cur, NoEnv).coverage_percentage <= 10000

\* ------------------------------------------------------------------------
\* Loads from the snapshot and the collection (checked under Spec)
\* ------------------------------------------------------------------------

\* C37: a load_services call that is served from the local snapshot (the
\* local load returned records and the endpoint was not asked) leaves the
\* collection as it was: it deletes no vector and changes no document,
\* whatever the store held before.
C37_SnapshotLoadKeepsIndex ==
    [][(/\ last'.op = "load_services"
        /\ last'.exc = "none"
        /\ last'.localCalls > 0
        /\ last'.localExc = "none"
        /\ last'.remoteCalls = 0)
       => /\ index' = index
          /\ last'.deleted = {}]_vars

\* ------------------------------------------------------------------------
\* Builds after a failed build (checked under SpecIndex)
\* ------------------------------------------------------------------------

\* the last call ran a build right after a build that raised
BuildAfterFailedBuild ==
    /\ last.op \in {"_compute_embeddings", "search_services_semantically"}
    /\ BuildRan
    /\ last.prevOp = "_compute_embeddings"
    /\ last.prevExc # "none"

\* C38: the build that follows a failed build requests embeddings only for
\* catalog records that were not in the collection when it began, and when
\* it returns the collection holds every catalog record and the computed
\* flag is set.
C38_NextBuildResumes ==
    BuildAfterFailedBuild =>
        /\ IdsIn(last.requests) \subseteq Unindexed
        /\ ~BuildRaised =>
              /\ Ids(services_list) \subseteq DOMAIN index
              /\ embeddings_computed

\* ------------------------------------------------------------------------
\* The documents of the collection (checked under SpecStore)
\* ------------------------------------------------------------------------

\* C39: when a build on a catalog with records has returned, the document
\* the collection holds under the id of each catalog record is the
\* embedding text of that record as the catalog holds it now.
C39_IndexedTextIsCurrent ==
    (/\ last.op = "_compute_embeddings"
     /\ last.exc = "none"
     /\ services_list # << >>)
    => \A i \in 1..Len(services_list) :
          /\ services_list[i].id \in DOMAIN index
          /\ index[services_list[i].id] = ServiceTextForEmbedding(services_list[i])

====
